---- MODULE Spec2Model ----
(***************************************************************************)
(* Authorization core of the pulseofpeople Django backend: role and        *)
(* permission resolution (api/models.py), tenant middleware                *)
(* (api/middleware/tenant_middleware.py), tenant scoped managers           *)
(* (api/managers/tenant_manager.py), guards (api/decorators/permissions.py,*)
(* api/permissions/role_permissions.py), user management views and the     *)
(* role attachment middleware (api/middleware/role_auth_middleware.py).    *)
(***************************************************************************)
EXTENDS Integers, FiniteSets, Sequences, Bags, TLC

(***************************************************************************)
(* Bounds of the model.                                                    *)
(***************************************************************************)
NumUsers == 2
NumOrgs == 2
NumRecords == 2
NumPerms == 2
MaxRoleBindings == 1

Users == 1..NumUsers
Orgs == 1..NumOrgs
RecordIds == 1..NumRecords

\* request.user of an unauthenticated request (AnonymousUser)
Anonymous == 0
\* a null Organization foreign key / request.tenant = None
NoOrg == 0
\* a guard or middleware that returns None hands the request on
Proceed == 200

\* an attribute the object does not have (hasattr is false)
Absent == -1

\* a foreign key that is None
NullRef == -2

Principals == Users \cup {Anonymous}
OrgOrNone == Orgs \cup {NoOrg}

\* UserProfile.ROLE_CHOICES
Roles == {"superadmin", "admin", "manager", "analyst", "user", "viewer", "volunteer"}

\* permissions_data of the seed command, in its order
permissions_data ==
  << "view_users", "create_users", "edit_users", "delete_users", "manage_roles",
     "view_dashboard", "view_analytics", "view_reports", "export_data", "import_data",
     "create_tasks", "manage_tasks",
     "view_basic_analytics", "view_advanced_analytics", "generate_reports",
     "view_settings", "edit_settings", "manage_billing",
     "manage_organizations", "view_all_data", "manage_system_settings", "view_audit_logs" >>

Catalog == {permissions_data[i] : i \in 1..Len(permissions_data)}

VARIABLES
  users,            \* auth_user rows: the ids of the existing User objects
  active,           \* the users whose is_active flag is set
  profiles,         \* UserProfile rows, a bag of [user, role, organization]
  permissions,      \* Permission rows: the names of the catalog
  rolePermissions,  \* RolePermission rows: [role, permission]
  userPermissions,  \* UserPermission rows: [user, permission, granted]
  records,          \* rows of a tenant owned model: record id -> organization
  auditLog,         \* AuditLog rows, oldest first
  organizations,    \* Organization rows [id, slug]
  reqs,             \* requests in flight: request id -> [user, pc, ...]
  last              \* the operation performed last, its inputs and its outcome

vars == << users, active, profiles, permissions, rolePermissions, userPermissions,
           records, auditLog, organizations, reqs, last >>

db == << users, active, profiles, permissions, rolePermissions, userPermissions, records,
         auditLog, organizations >>

\* Organization.slug of the organization with id i (slugs are unique)
OrgSlugs == << "acme", "beta", "gamma", "delta" >>

Organization(i) == [id |-> i, slug |-> OrgSlugs[i]]

AllOrganizations == {Organization(i) : i \in Orgs}

(***************************************************************************)
(* Principals and their Profile (django User, UserProfile.user OneToOne).   *)
(***************************************************************************)
is_authenticated(u) == u # Anonymous

ProfileRows(u) == {r \in BagToSet(profiles) : r.user = u}

\* hasattr(user, 'profile'): the reverse one-to-one accessor finds a row
HasProfile(u) == ProfileRows(u) # {}

\* user.profile
ProfileOf(u) == CHOOSE r \in ProfileRows(u) : TRUE

NewProfile(u, role, org) == [user |-> u, role |-> role, organization |-> org]

\* profile.role = role; profile.save()
SetRole(u, role) ==
  (profiles (-) SetToBag({ProfileOf(u)}))
     (+) SetToBag({[ProfileOf(u) EXCEPT !.role = role]})

is_superadmin(p) == p.role = "superadmin"

is_admin(p) == p.role = "admin"

is_admin_or_above(p) == p.role \in {"admin", "superadmin", "manager"}

\* request.user_role ("" for None), request.is_superadmin, request.is_admin
\* and request.is_admin_or_above as the else and except branches set them
NoRoleFacts ==
  [user_role |-> "", is_superadmin |-> FALSE, is_admin |-> FALSE,
   is_admin_or_above |-> FALSE]

\* the facts set after UserProfile.objects.create(user=request.user)
CreatedProfileFacts ==
  [user_role |-> "user", is_superadmin |-> FALSE, is_admin |-> FALSE,
   is_admin_or_above |-> FALSE]

ProfileFacts_admin_or_above(p) ==
  [user_role |-> p.role, is_superadmin |-> is_superadmin(p),
   is_admin |-> is_admin_or_above(p), is_admin_or_above |-> is_admin_or_above(p)]

\* the facts read from an existing Profile
ProfileFacts(p) ==
  [user_role |-> p.role, is_superadmin |-> is_superadmin(p), is_admin |-> is_admin(p),
   is_admin_or_above |-> is_admin_or_above(p)]

NoOp == [op |-> "none", path |-> << >>, obj |-> [owner |-> Absent, user |-> Absent], user |-> Anonymous, target |-> Anonymous,
         tenant |-> NoOrg, created_count |-> 0, mapping_count |-> 0, name |-> "", status |-> 0, granted |-> FALSE, rows |-> {}, names |-> {},
         body |-> {}, facts |-> NoRoleFacts]

(***************************************************************************)
(* Permission resolution (UserProfile.has_permission / get_permissions).   *)
(***************************************************************************)
\* RolePermission.objects.filter(role=..., permission__name=...).exists()
role_has_perm(role, permission_name) ==
  \E rp \in rolePermissions : rp.role = role /\ rp.permission = permission_name

\* UserPermission.objects.filter(user_profile=..., permission__name=..., granted=True).exists()
user_perm(u, permission_name) ==
  \E up \in userPermissions :
     up.user = u /\ up.permission = permission_name /\ up.granted = TRUE

has_permission_revoking(p, permission_name) ==
  IF is_superadmin(p) THEN TRUE
  ELSE IF \E up \in userPermissions : up.user = p.user /\ up.permission = permission_name
       THEN user_perm(p.user, permission_name)
       ELSE role_has_perm(p.role, permission_name)

has_permission_no_superadmin_case(p, permission_name) ==
  role_has_perm(p.role, permission_name) \/ user_perm(p.user, permission_name)

has_permission(p, permission_name) ==
  IF is_superadmin(p) THEN TRUE
  ELSE IF role_has_perm(p.role, permission_name) THEN TRUE
  ELSE user_perm(p.user, permission_name)

get_permissions_any_override(p) ==
  IF is_superadmin(p) THEN permissions
  ELSE {n \in permissions : role_has_perm(p.role, n)}
         \cup {n \in permissions :
                 \E up \in userPermissions : up.user = p.user /\ up.permission = n}

get_permissions(p) ==
  IF is_superadmin(p) THEN permissions
  ELSE {n \in permissions : role_has_perm(p.role, n)}
         \cup {n \in permissions : user_perm(p.user, n)}

role_permissions_map_everything == [r \in Roles |-> Catalog]

\* role_permissions_map of the seed command
role_permissions_map ==
  [r \in Roles |->
     CASE r = "superadmin" -> {}
       [] r = "admin" ->
            {"view_users", "create_users", "edit_users", "delete_users", "manage_roles",
             "view_dashboard", "view_analytics", "view_reports", "export_data",
             "import_data", "create_tasks", "manage_tasks",
             "view_basic_analytics", "view_advanced_analytics", "generate_reports",
             "view_settings", "edit_settings", "manage_billing", "view_audit_logs"}
       [] r = "manager" ->
            {"view_users", "create_users", "edit_users",
             "view_dashboard", "view_analytics", "view_reports", "export_data",
             "create_tasks", "manage_tasks",
             "view_basic_analytics", "view_advanced_analytics", "generate_reports",
             "view_settings"}
       [] r = "analyst" ->
            {"view_users",
             "view_dashboard", "view_analytics", "view_reports", "export_data",
             "create_tasks",
             "view_basic_analytics", "view_advanced_analytics", "generate_reports",
             "view_settings"}
       [] r = "user" ->
            {"view_dashboard", "create_tasks", "view_basic_analytics", "view_settings"}
       [] r = "viewer" ->
            {"view_dashboard", "view_analytics", "view_basic_analytics"}
       [] r = "volunteer" ->
            {"view_dashboard", "create_tasks"}]

\* the RolePermission rows after the seed command ran on an empty store
SeededRolePermissions ==
  {[role |-> r, permission |-> n] : r \in Roles, n \in Catalog}
     \cap UNION {{[role |-> r, permission |-> n] : n \in role_permissions_map[r]} : r \in Roles}

(***************************************************************************)
(* Tenant isolation middleware.                                            *)
(***************************************************************************)
TenantIsolation_skip_unset(u, tenant) ==
  IF ~is_authenticated(u) THEN Proceed
  ELSE IF HasProfile(u) /\ is_superadmin(ProfileOf(u)) THEN Proceed
  ELSE IF tenant # NoOrg /\ HasProfile(u)
            /\ ProfileOf(u).organization # NoOrg
            /\ ProfileOf(u).organization # tenant THEN 403
  ELSE Proceed

\* TenantIsolationMiddleware.process_request: the status of the response it
\* returns, or Proceed when it returns None
TenantIsolation(u, tenant) ==
  IF ~is_authenticated(u) THEN Proceed
  ELSE IF HasProfile(u) /\ is_superadmin(ProfileOf(u)) THEN Proceed
  ELSE IF tenant # NoOrg
       THEN IF HasProfile(u)
            THEN IF ProfileOf(u).organization # tenant THEN 403 ELSE Proceed
            ELSE Proceed
       ELSE Proceed

\* the keys of the JSON body of its JsonResponse, {} when it returns None
TenantIsolation_body(u, tenant) ==
  IF TenantIsolation(u, tenant) = 403 THEN {"error", "detail"} ELSE {}

TenantIsolationMiddleware_process_request ==
  \E u \in Principals, t \in OrgOrNone :
    /\ last.op = "none"
    /\ last' = [NoOp EXCEPT !.op = "tenant_isolation", !.user = u, !.tenant = t,
                            !.status = TenantIsolation(u, t),
                            !.body = TenantIsolation_body(u, t)]
    /\ UNCHANGED << db, reqs >>

(***************************************************************************)
(* Decorator guards (api/decorators/permissions.py): the status of the     *)
(* denial, or Proceed when the wrapped view is called.                     *)
(***************************************************************************)
require_permission(u, permission_name) ==
  IF ~is_authenticated(u) THEN 401
  ELSE IF ~HasProfile(u) THEN 403
  ELSE IF ~has_permission(ProfileOf(u), permission_name) THEN 403
  ELSE Proceed

require_role(u, allowed_roles) ==
  IF ~is_authenticated(u) THEN 401
  ELSE IF ~HasProfile(u) THEN 403
  ELSE IF ProfileOf(u).role \notin allowed_roles THEN 403
  ELSE Proceed

superadmin_required(u) ==
  IF ~is_authenticated(u) THEN 401
  ELSE IF ~HasProfile(u) THEN 403
  ELSE IF ~is_superadmin(ProfileOf(u)) THEN 403
  ELSE Proceed

admin_required(u) ==
  IF ~is_authenticated(u) THEN 401
  ELSE IF ~HasProfile(u) THEN 403
  ELSE IF ~is_admin_or_above(ProfileOf(u)) THEN 403
  ELSE Proceed

\* require_tenant: only request.tenant is looked at
require_tenant(u, tenant) == IF tenant = NoOrg THEN 400 ELSE Proceed

(***************************************************************************)
(* The keys of the JSON body of the JsonResponse each guard returns, {}    *)
(* when the wrapped view is called or the middleware returns None.         *)
(***************************************************************************)
require_permission_body(u, permission_name) ==
  IF ~is_authenticated(u) THEN {"error"}
  ELSE IF ~HasProfile(u) THEN {"error"}
  ELSE IF ~has_permission(ProfileOf(u), permission_name) THEN {"error", "detail"}
  ELSE {}

require_role_body(u, allowed_roles) ==
  IF ~is_authenticated(u) THEN {"error"}
  ELSE IF ~HasProfile(u) THEN {"error"}
  ELSE IF ProfileOf(u).role \notin allowed_roles THEN {"error", "detail"}
  ELSE {}

superadmin_required_body(u) ==
  IF ~is_authenticated(u) THEN {"error"}
  ELSE IF ~HasProfile(u) THEN {"error"}
  ELSE IF ~is_superadmin(ProfileOf(u)) THEN {"error", "detail"}
  ELSE {}

admin_required_body(u) ==
  IF ~is_authenticated(u) THEN {"error"}
  ELSE IF ~HasProfile(u) THEN {"error"}
  ELSE IF ~is_admin_or_above(ProfileOf(u)) THEN {"error", "detail"}
  ELSE {}

require_tenant_body(u, tenant) ==
  IF tenant = NoOrg THEN {"error", "detail", "expected_format"} ELSE {}

(***************************************************************************)
(* DRF permission classes of api/decorators/permissions.py.                *)
(***************************************************************************)
\* HasPermission.has_permission; "" is a view without required_permission
HasPermission(u, required_permission) ==
  IF ~is_authenticated(u) THEN FALSE
  ELSE IF ~HasProfile(u) THEN FALSE
  ELSE IF required_permission = "" THEN FALSE
  ELSE has_permission(ProfileOf(u), required_permission)

\* HasRole.has_permission; {} is a view without required_roles
HasRole(u, required_roles) ==
  IF ~is_authenticated(u) THEN FALSE
  ELSE IF ~HasProfile(u) THEN FALSE
  ELSE IF required_roles = {} THEN FALSE
  ELSE ProfileOf(u).role \in required_roles

decorators_IsSuperAdmin(u) ==
  IF ~is_authenticated(u) THEN FALSE
  ELSE IF ~HasProfile(u) THEN FALSE
  ELSE is_superadmin(ProfileOf(u))

decorators_IsAdminOrAbove(u) ==
  IF ~is_authenticated(u) THEN FALSE
  ELSE IF ~HasProfile(u) THEN FALSE
  ELSE is_admin_or_above(ProfileOf(u))

BelongsToTenant(u, tenant) ==
  IF ~is_authenticated(u) THEN FALSE
  ELSE IF ~HasProfile(u) THEN FALSE
  ELSE IF is_superadmin(ProfileOf(u)) THEN TRUE
  ELSE IF tenant = NoOrg THEN FALSE
  ELSE ProfileOf(u).organization = tenant

(***************************************************************************)
(* DRF permission classes of api/permissions/role_permissions.py: reading  *)
(* request.user.profile of a user without Profile raises, and the except   *)
(* clause answers False.                                                   *)
(***************************************************************************)
IsSuperAdmin(u) ==
  IF ~is_authenticated(u) THEN FALSE
  ELSE IF ~HasProfile(u) THEN FALSE
  ELSE ProfileOf(u).role = "superadmin"

IsAdminOrAbove(u) ==
  IF ~is_authenticated(u) THEN FALSE
  ELSE IF ~HasProfile(u) THEN FALSE
  ELSE ProfileOf(u).role \in {"admin", "superadmin"}

IsAdmin(u) ==
  IF ~is_authenticated(u) THEN FALSE
  ELSE IF ~HasProfile(u) THEN FALSE
  ELSE ProfileOf(u).role = "admin"

CanManageUsers_has_permission(u) ==
  IF ~is_authenticated(u) THEN FALSE
  ELSE IF ~HasProfile(u) THEN FALSE
  ELSE ProfileOf(u).role \in {"admin", "superadmin"}

\* the role read off the target: obj.profile.role, None ("") without Profile
target_role(obj) == IF HasProfile(obj) THEN ProfileOf(obj).role ELSE ""

CanManageUsers_admin_manages_non_superadmin(u, obj) ==
  IF ~is_authenticated(u) THEN FALSE
  ELSE IF HasProfile(u) /\ ProfileOf(u).role = "superadmin" THEN TRUE
  ELSE IF HasProfile(u) /\ ProfileOf(u).role = "admin"
       THEN target_role(obj) # "superadmin"
  ELSE FALSE

CanManageUsers_has_object_permission(u, obj) ==
  IF ~is_authenticated(u) THEN FALSE
  ELSE IF HasProfile(u) /\ ProfileOf(u).role = "superadmin" THEN TRUE
  ELSE IF HasProfile(u) /\ ProfileOf(u).role = "admin"
       THEN target_role(obj) = "user"
  ELSE FALSE

IsOwnerOrAdminOrAbove_user_first(u, obj) ==
  IF is_authenticated(u) /\ HasProfile(u) /\ ProfileOf(u).role \in {"admin", "superadmin"}
  THEN TRUE
  ELSE IF obj.user # Absent THEN obj.user = u
  ELSE IF obj.owner # Absent THEN obj.owner = u
  ELSE FALSE

\* IsOwnerOrAdminOrAbove.has_object_permission; obj is the object's owner and
\* user attributes
IsOwnerOrAdminOrAbove(u, obj) ==
  IF is_authenticated(u) /\ HasProfile(u) /\ ProfileOf(u).role \in {"admin", "superadmin"}
  THEN TRUE
  ELSE IF obj.owner # Absent THEN obj.owner = u
  ELSE IF obj.user # Absent THEN obj.user = u
  ELSE FALSE

CanChangeRole(u) ==
  IF ~is_authenticated(u) THEN FALSE
  ELSE IF ~HasProfile(u) THEN FALSE
  ELSE ProfileOf(u).role = "superadmin"

(***************************************************************************)
(* Service layer checks (BaseService): the status of the ServiceException  *)
(* raised, or Proceed when the check returns.                              *)
(***************************************************************************)
validate_permission(u, permission_name) ==
  IF ~is_authenticated(u) THEN 401
  ELSE IF ~HasProfile(u) THEN 403
  ELSE IF ~has_permission(ProfileOf(u), permission_name) THEN 403
  ELSE Proceed

validate_role(u, allowed_roles) ==
  IF ~is_authenticated(u) THEN 401
  ELSE IF ~HasProfile(u) THEN 403
  ELSE IF ProfileOf(u).role \notin allowed_roles THEN 403
  ELSE Proceed

(***************************************************************************)
(* One request passing one guard: the guard is applied to the principal    *)
(* and the outcome recorded.                                               *)
(***************************************************************************)
\* permission names a view may require: catalog names and the name the
\* service layer asks for
GuardPermNames == {permissions_data[i] : i \in 1..NumPerms} \cup {"users.manage_roles"}

\* role lists a view may require
GuardRoleSets == {{"admin"}, {"admin", "manager"}, {"user"}}

Checked(op, u) == [NoOp EXCEPT !.op = op, !.user = u]

\* no request has been answered yet
Idle == last.op = "none"

guard_profiles_autoheal(u) ==
  IF is_authenticated(u) /\ ~HasProfile(u)
  THEN profiles (+) SetToBag({NewProfile(u, "user", NoOrg)})
  ELSE profiles

\* the UserProfile table after a decorator or a permission class has
\* answered: none of them writes a row
guard_profiles(u) == profiles

DecoratorGuard ==
  \E u \in Principals :
    /\ Idle
    /\ \/ \E n \in GuardPermNames :
            last' = [Checked("require_permission", u) EXCEPT
                       !.name = n, !.status = require_permission(u, n),
                       !.body = require_permission_body(u, n)]
       \/ \E rs \in GuardRoleSets :
            last' = [Checked("require_role", u) EXCEPT
                       !.names = rs, !.status = require_role(u, rs),
                       !.body = require_role_body(u, rs)]
       \/ last' = [Checked("superadmin_required", u) EXCEPT
                       !.status = superadmin_required(u),
                       !.body = superadmin_required_body(u)]
       \/ last' = [Checked("admin_required", u) EXCEPT
                       !.status = admin_required(u), !.body = admin_required_body(u)]
       \/ \E tenant \in OrgOrNone :
            last' = [Checked("require_tenant", u) EXCEPT
                       !.tenant = tenant, !.status = require_tenant(u, tenant),
                       !.body = require_tenant_body(u, tenant)]
    /\ profiles' = guard_profiles(u)
    /\ UNCHANGED << users, active, permissions, rolePermissions, userPermissions, records,
                    auditLog, organizations, reqs >>

PermissionClass ==
  \E u \in Principals :
    /\ Idle
    /\ \/ \E n \in GuardPermNames \cup {""} :
            last' = [Checked("HasPermission", u) EXCEPT
                       !.name = n, !.granted = HasPermission(u, n)]
       \/ \E rs \in GuardRoleSets \cup {{}} :
            last' = [Checked("HasRole", u) EXCEPT
                       !.names = rs, !.granted = HasRole(u, rs)]
       \/ last' = [Checked("decorators.IsSuperAdmin", u) EXCEPT
                       !.granted = decorators_IsSuperAdmin(u)]
       \/ last' = [Checked("decorators.IsAdminOrAbove", u) EXCEPT
                       !.granted = decorators_IsAdminOrAbove(u)]
       \/ \E t \in OrgOrNone :
            last' = [Checked("BelongsToTenant", u) EXCEPT
                       !.tenant = t, !.granted = BelongsToTenant(u, t)]
       \/ last' = [Checked("IsSuperAdmin", u) EXCEPT !.granted = IsSuperAdmin(u)]
       \/ last' = [Checked("IsAdminOrAbove", u) EXCEPT !.granted = IsAdminOrAbove(u)]
       \/ last' = [Checked("IsAdmin", u) EXCEPT !.granted = IsAdmin(u)]
       \/ last' = [Checked("CanManageUsers", u) EXCEPT
                       !.granted = CanManageUsers_has_permission(u)]
       \/ last' = [Checked("CanChangeRole", u) EXCEPT !.granted = CanChangeRole(u)]
    /\ profiles' = guard_profiles(u)
    /\ UNCHANGED << users, active, permissions, rolePermissions, userPermissions, records,
                    auditLog, organizations, reqs >>

ObjectPermission ==
  \E u \in Principals, obj \in Users :
    /\ Idle
    /\ last' = [Checked("CanManageUsers.object", u) EXCEPT
                  !.target = obj, !.granted = CanManageUsers_has_object_permission(u, obj)]
    /\ UNCHANGED << db, reqs >>

\* the objects a view hands to has_object_permission
OwnedObjects == [owner : Users \cup {Absent, NullRef}, user : Users \cup {Absent, NullRef}]

OwnerObjectPermission ==
  \E u \in Principals, obj \in OwnedObjects :
    /\ Idle
    /\ last' = [Checked("IsOwnerOrAdminOrAbove", u) EXCEPT
                  !.obj = obj, !.granted = IsOwnerOrAdminOrAbove(u, obj)]
    /\ UNCHANGED << db, reqs >>

ServiceCheck ==
  \E u \in Principals :
    /\ Idle
    /\ \/ \E n \in GuardPermNames :
            last' = [Checked("validate_permission", u) EXCEPT
                       !.name = n, !.status = validate_permission(u, n)]
       \/ \E rs \in GuardRoleSets :
            last' = [Checked("validate_role", u) EXCEPT
                       !.names = rs, !.status = validate_role(u, rs)]
    /\ UNCHANGED << db, reqs >>

(***************************************************************************)
(* Database states the guards are applied to: a user has no Profile or a   *)
(* Profile of any role in any organization (or none); the table holds at   *)
(* most two rows, the requester's and the target's.                        *)
(***************************************************************************)
NoProfile == << "", NoOrg >>

ProfileChoices == {NoProfile} \cup (Roles \X OrgOrNone)

ProfileBag(f) ==
  SetToBag({NewProfile(u, f[u][1], f[u][2]) : u \in {v \in DOMAIN f : f[v] # NoProfile}})

InitGuard ==
  /\ users = Users
  /\ active = Users
  /\ \E f \in [Users -> ProfileChoices] :
        /\ Cardinality({u \in Users : f[u] # NoProfile}) <= 2
        /\ profiles = ProfileBag(f)
  /\ permissions = Catalog
  /\ rolePermissions = SeededRolePermissions
  /\ userPermissions = {}
  /\ records = [i \in RecordIds |-> NoOrg]
  /\ auditLog = << >>
  /\ organizations = AllOrganizations
  /\ reqs = << >>
  /\ last = NoOp

NextGuard ==
  \/ TenantIsolationMiddleware_process_request
  \/ DecoratorGuard
  \/ PermissionClass
  \/ ObjectPermission
  \/ OwnerObjectPermission
  \/ ServiceCheck

SpecGuard == InitGuard /\ [][NextGuard]_vars

(***************************************************************************)
(* C1: the tenant-isolation guard answers 403 to an authenticated          *)
(* principal with a Profile, not superadmin, of organization A (or none)   *)
(* on a request whose attached tenant B differs from A; lets the same      *)
(* principal through when the attached tenant is A; lets superadmins and   *)
(* unauthenticated requests through for every tenant.                      *)
(***************************************************************************)
C1_TenantIsolation ==
  last.op = "tenant_isolation" =>
    LET u == last.user
        t == last.tenant
    IN /\ (~is_authenticated(u)) => last.status = Proceed
       /\ (is_authenticated(u) /\ HasProfile(u) /\ is_superadmin(ProfileOf(u)))
             => last.status = Proceed
       /\ (is_authenticated(u) /\ HasProfile(u) /\ ~is_superadmin(ProfileOf(u))
             /\ t # NoOrg)
             => (last.status = 403 <=> ProfileOf(u).organization # t)
                /\ (last.status = Proceed <=> ProfileOf(u).organization = t)

C1_Witness ==
  /\ last.op = "tenant_isolation"
  /\ last.status = 403
  /\ is_authenticated(last.user) /\ HasProfile(last.user)
  /\ ProfileOf(last.user).organization = NoOrg
  /\ last.tenant # NoOrg

(***************************************************************************)
(* Scoping layer (TenantQuerySet of api/managers/tenant_manager.py) over   *)
(* the rows of a tenant owned model: the ids of the rows a query returns.  *)
(***************************************************************************)
for_tenant_filter_null(organization) ==
  {i \in DOMAIN records : records[i] = organization}

for_tenant(organization) ==
  IF organization = NoOrg THEN {}
  ELSE {i \in DOMAIN records : records[i] = organization}

for_user(u) ==
  IF ~is_authenticated(u) THEN {}
  ELSE IF HasProfile(u) /\ ProfileOf(u).organization # NoOrg
       THEN for_tenant(ProfileOf(u).organization)
  ELSE {}

accessible_by(u) ==
  IF ~is_authenticated(u) THEN {}
  ELSE IF HasProfile(u) /\ is_superadmin(ProfileOf(u)) THEN DOMAIN records
  ELSE for_user(u)

\* TenantAwareMixin.is_accessible_by of the record with id i
is_accessible_by(u, i) ==
  IF ~is_authenticated(u) THEN FALSE
  ELSE IF HasProfile(u) /\ is_superadmin(ProfileOf(u)) THEN TRUE
  ELSE IF HasProfile(u) THEN records[i] = ProfileOf(u).organization
  ELSE FALSE

ForTenant ==
  \E org \in OrgOrNone :
    /\ Idle
    /\ last' = [NoOp EXCEPT !.op = "for_tenant", !.tenant = org, !.rows = for_tenant(org)]
    /\ UNCHANGED << db, reqs >>

ForUser ==
  \E u \in Principals :
    /\ Idle
    /\ last' = [Checked("for_user", u) EXCEPT !.rows = for_user(u)]
    /\ UNCHANGED << db, reqs >>

AccessibleBy ==
  \E u \in Principals :
    /\ Idle
    /\ last' = [Checked("accessible_by", u) EXCEPT !.rows = accessible_by(u)]
    /\ UNCHANGED << db, reqs >>

IsAccessibleBy ==
  \E u \in Principals, i \in RecordIds :
    /\ Idle
    /\ last' = [Checked("is_accessible_by", u) EXCEPT
                  !.rows = {i}, !.granted = is_accessible_by(u, i)]
    /\ UNCHANGED << db, reqs >>

\* the stores the queries run on: any organization (or none) on every row
\* of the tenant owned model, and the Profile of the querying principal
InitScope ==
  /\ users = Users
  /\ active = Users
  /\ \E f \in [Users -> ProfileChoices] :
        /\ Cardinality({u \in Users : f[u] # NoProfile}) <= 1
        /\ profiles = ProfileBag(f)
  /\ permissions = Catalog
  /\ rolePermissions = SeededRolePermissions
  /\ userPermissions = {}
  /\ records \in [RecordIds -> OrgOrNone]
  /\ auditLog = << >>
  /\ organizations = AllOrganizations
  /\ reqs = << >>
  /\ last = NoOp

NextScope ==
  \/ ForTenant
  \/ ForUser
  \/ AccessibleBy
  \/ IsAccessibleBy

SpecScope == InitScope /\ [][NextScope]_vars

(***************************************************************************)
(* C2: for a non-superadmin principal for_user returns only records whose  *)
(* organization equals the organization of the principal's Profile; it is  *)
(* empty for an unauthenticated principal, a principal without Profile and *)
(* a principal without organization; for_tenant(None) is empty.            *)
(***************************************************************************)
C2_ForUserScoped ==
  /\ last.op = "for_user" =>
       LET u == last.user
       IN /\ (is_authenticated(u) /\ HasProfile(u) /\ ~is_superadmin(ProfileOf(u))) =>
               \A i \in last.rows : records[i] = ProfileOf(u).organization
          /\ (~is_authenticated(u) \/ ~HasProfile(u)
                \/ ProfileOf(u).organization = NoOrg) => last.rows = {}
  /\ (last.op = "for_tenant" /\ last.tenant = NoOrg) => last.rows = {}

C2_Witness ==
  /\ last.op = "for_user"
  /\ HasProfile(last.user) /\ ~is_superadmin(ProfileOf(last.user))
  /\ last.rows # {}
  /\ \E i \in DOMAIN records : records[i] \notin {NoOrg, ProfileOf(last.user).organization}

(***************************************************************************)
(* The RolePermission and UserPermission tables, edited through the admin  *)
(* site (api/admin.py), and permission checks against their current state. *)
(***************************************************************************)
\* the Permission rows the edited rows refer to
Perms == {permissions_data[i] : i \in 1..NumPerms}

\* RolePermission.Meta.unique_together = ['role', 'permission']
AddRolePermission ==
  \E r \in Roles, n \in Perms :
    /\ Idle
    /\ Cardinality(rolePermissions) < MaxRoleBindings
    /\ ~role_has_perm(r, n)
    /\ rolePermissions' = rolePermissions \cup {[role |-> r, permission |-> n]}
    /\ UNCHANGED << users, active, profiles, permissions, userPermissions, records,
                    auditLog, reqs, last, organizations >>

DeleteRolePermission ==
  \E rp \in rolePermissions :
    /\ Idle
    /\ rolePermissions' = rolePermissions \ {rp}
    /\ UNCHANGED << users, active, profiles, permissions, userPermissions, records,
                    auditLog, reqs, last, organizations >>

\* UserPermission.Meta.unique_together = ['user_profile', 'permission']
AddUserPermission ==
  \E u \in Users, n \in Perms, g \in BOOLEAN :
    /\ Idle
    /\ HasProfile(u)
    /\ ~\E up \in userPermissions : up.user = u /\ up.permission = n
    /\ userPermissions' = userPermissions \cup {[user |-> u, permission |-> n, granted |-> g]}
    /\ UNCHANGED << users, active, profiles, permissions, rolePermissions, records,
                    auditLog, reqs, last, organizations >>

ChangeUserPermission ==
  \E up \in userPermissions :
    /\ Idle
    /\ userPermissions' = (userPermissions \ {up})
                             \cup {[up EXCEPT !.granted = ~up.granted]}
    /\ UNCHANGED << users, active, profiles, permissions, rolePermissions, records,
                    auditLog, reqs, last, organizations >>

DeleteUserPermission ==
  \E up \in userPermissions :
    /\ Idle
    /\ userPermissions' = userPermissions \ {up}
    /\ UNCHANGED << users, active, profiles, permissions, rolePermissions, records,
                    auditLog, reqs, last, organizations >>

\* the role of a Profile is edited
ChangeProfileRole ==
  \E u \in Users, r \in Roles :
    /\ Idle
    /\ HasProfile(u)
    /\ ProfileOf(u).role # r
    /\ profiles' = SetRole(u, r)
    /\ UNCHANGED << users, active, permissions, rolePermissions, userPermissions, records,
                    auditLog, reqs, last, organizations >>

CheckHasPermission ==
  \E u \in Users, n \in GuardPermNames :
    /\ Idle
    /\ HasProfile(u)
    /\ last' = [Checked("has_permission", u) EXCEPT
                  !.name = n, !.granted = has_permission(ProfileOf(u), n)]
    /\ UNCHANGED << db, reqs >>

CheckGetPermissions ==
  \E u \in Users :
    /\ Idle
    /\ HasProfile(u)
    /\ last' = [Checked("get_permissions", u) EXCEPT !.names = get_permissions(ProfileOf(u))]
    /\ UNCHANGED << db, reqs >>

\* a seeded catalog, empty binding and override tables, one principal of any role
InitPerm ==
  /\ users = Users
  /\ active = Users
  /\ \E u \in Users, r \in Roles : profiles = SetToBag({NewProfile(u, r, NoOrg)})
  /\ permissions = Catalog
  /\ rolePermissions = {}
  /\ userPermissions = {}
  /\ records = [i \in RecordIds |-> NoOrg]
  /\ auditLog = << >>
  /\ organizations = AllOrganizations
  /\ reqs = << >>
  /\ last = NoOp

NextPerm ==
  \/ AddRolePermission
  \/ DeleteRolePermission
  \/ AddUserPermission
  \/ ChangeUserPermission
  \/ DeleteUserPermission
  \/ ChangeProfileRole
  \/ CheckHasPermission
  \/ CheckGetPermissions

SpecPerm == InitPerm /\ [][NextPerm]_vars

(***************************************************************************)
(* C3: for a principal of role superadmin has_permission is true for every *)
(* permission name and get_permissions is the full Permission catalog, in  *)
(* every state of the RolePermission and UserPermission tables.            *)
(***************************************************************************)
C3_SuperadminAll ==
  /\ (last.op = "has_permission" /\ ProfileOf(last.user).role = "superadmin")
        => last.granted = TRUE
  /\ (last.op = "get_permissions" /\ ProfileOf(last.user).role = "superadmin")
        => last.names = permissions

C3_Witness ==
  /\ last.op = "has_permission"
  /\ ProfileOf(last.user).role = "superadmin"
  /\ last.granted = TRUE
  /\ rolePermissions = {}
  /\ [user |-> last.user, permission |-> last.name, granted |-> FALSE] \in userPermissions

(***************************************************************************)
(* C4: for a principal p that is not superadmin, has_permission(p, n) is   *)
(* true exactly when a RolePermission (p.role, n) exists or a              *)
(* UserPermission (p, n, granted=true) exists; a granted=false row neither *)
(* grants n nor revokes the grant of the role.                             *)
(***************************************************************************)
C4_HasPermissionIff ==
  (last.op = "has_permission" /\ ProfileOf(last.user).role # "superadmin") =>
     (last.granted = TRUE <=>
        \/ [role |-> ProfileOf(last.user).role, permission |-> last.name] \in rolePermissions
        \/ [user |-> last.user, permission |-> last.name, granted |-> TRUE]
              \in userPermissions)

C4_Witness ==
  /\ last.op = "has_permission"
  /\ ProfileOf(last.user).role # "superadmin"
  /\ last.granted = TRUE
  /\ [user |-> last.user, permission |-> last.name, granted |-> FALSE] \in userPermissions

(***************************************************************************)
(* User management: registration, the superadmin and admin viewsets, the   *)
(* profile self-service viewsets, UserService.assign_role and the user     *)
(* sync of the token authentication.  One request is handled per           *)
(* behaviour, from any state of the User and UserProfile tables.           *)
(***************************************************************************)
\* a role value outside ROLE_CHOICES
OtherRole == "guest"

\* the 'role' a request body or a token may carry; "" is no role given
RequestRoles == Roles \cup {"", OtherRole}

\* DRF's answer when a permission class refuses the request
Denied(u) == IF is_authenticated(u) THEN 403 ELSE 401

Did(op, actor, target, status) ==
  [NoOp EXCEPT !.op = op, !.user = actor, !.target = target, !.status = status]

UniqueViolation_unchecked(u) == FALSE

\* the unique constraint of the one-to-one UserProfile.user: a second row
\* for the same user is refused with IntegrityError
UniqueViolation(u) == HasProfile(u)

\* UserProfile.objects.create(user=u, role=role)
InsertProfile(u, role) == profiles (+) SetToBag({NewProfile(u, role, NoOrg)})

\* user.delete(): the Profile and its UserPermission rows go with it (CASCADE),
\* the AuditLog rows of the user stay and lose their user (SET_NULL)
DeleteUserRows(u) ==
  /\ users' = users \ {u}
  /\ active' = active \ {u}
  /\ profiles' = [r \in {x \in DOMAIN profiles : x.user # u} |-> profiles[r]]
  /\ userPermissions' = {up \in userPermissions : up.user # u}
  /\ auditLog' = [i \in DOMAIN auditLog |->
                    IF auditLog[i].user = u
                    THEN [auditLog[i] EXCEPT !.user = Anonymous]
                    ELSE auditLog[i]]

\* User.objects.create_user(...) followed by the creation of the Profile
InsertUserWithProfile(n, role) ==
  /\ users' = users \cup {n}
  /\ active' = active \cup {n}
  /\ profiles' = InsertProfile(n, role)

\* AuditService.log_user_action: the row is written, or the write fails and
\* the failure is swallowed
log_user_action(entry) ==
  \/ auditLog' = Append(auditLog, entry)
  \/ auditLog' = auditLog

\* UserViewSet.create (AllowAny) with UserSerializer.create
UserViewSet_create ==
  \E actor \in Principals, n \in Users \ users :
    /\ Idle
    /\ InsertUserWithProfile(n, "user")
    /\ last' = Did("UserViewSet.create", actor, n, 201)
    /\ UNCHANGED << permissions, rolePermissions, userPermissions, records, auditLog, reqs,
                    organizations >>

\* SuperAdminUserManagementViewSet.change_role
SuperAdmin_change_role ==
  \E actor \in Principals, target \in users, new_role \in RequestRoles :
    /\ Idle
    /\ IF ~CanChangeRole(actor)
       THEN /\ last' = Did("change_role", actor, Anonymous, Denied(actor))
            /\ UNCHANGED profiles
       ELSE IF new_role = "" \/ new_role \notin {"superadmin", "admin", "user"}
       THEN /\ last' = Did("change_role", actor, Anonymous, 400)
            /\ UNCHANGED profiles
       ELSE IF ~HasProfile(target)
       THEN /\ last' = Did("change_role", actor, Anonymous, 500)
            /\ UNCHANGED profiles
       ELSE /\ profiles' = SetRole(target, new_role)
            /\ last' = Did("change_role", actor, target, 200)
    /\ UNCHANGED << users, active, permissions, rolePermissions, userPermissions, records,
                    auditLog, reqs, organizations >>

\* SuperAdminUserManagementViewSet.create_admin
SuperAdmin_create_admin ==
  \E actor \in Principals, n \in Users \ users, role \in RequestRoles :
    /\ Idle
    /\ IF ~IsSuperAdmin(actor)
       THEN /\ last' = Did("create_admin", actor, Anonymous, Denied(actor))
            /\ UNCHANGED << users, active, profiles >>
       ELSE IF (IF role = "" THEN "admin" ELSE role) \notin {"admin", "superadmin"}
       THEN /\ last' = Did("create_admin", actor, Anonymous, 400)
            /\ UNCHANGED << users, active, profiles >>
       ELSE /\ InsertUserWithProfile(n, IF role = "" THEN "admin" ELSE role)
            /\ last' = Did("create_admin", actor, n, 201)
    /\ UNCHANGED << permissions, rolePermissions, userPermissions, records, auditLog, reqs,
                    organizations >>

\* SuperAdminUserManagementViewSet.create (ModelViewSet, UserManagementSerializer):
\* a User row and no Profile
SuperAdmin_create ==
  \E actor \in Principals, n \in Users \ users :
    /\ Idle
    /\ IF ~IsSuperAdmin(actor)
       THEN /\ last' = Did("superadmin.create", actor, Anonymous, Denied(actor))
            /\ UNCHANGED << users, active >>
       ELSE /\ users' = users \cup {n}
            /\ active' = active \cup {n}
            /\ last' = Did("superadmin.create", actor, n, 201)
    /\ UNCHANGED << profiles, permissions, rolePermissions, userPermissions, records,
                    auditLog, reqs, organizations >>

\* SuperAdminUserManagementViewSet.toggle_active
SuperAdmin_toggle_active ==
  \E actor \in Principals, target \in users :
    /\ Idle
    /\ IF ~IsSuperAdmin(actor)
       THEN /\ last' = Did("superadmin.toggle_active", actor, Anonymous, Denied(actor))
            /\ UNCHANGED active
       ELSE /\ active' = IF target \in active THEN active \ {target}
                         ELSE active \cup {target}
            /\ last' = Did("superadmin.toggle_active", actor, target, 200)
    /\ UNCHANGED << users, profiles, permissions, rolePermissions, userPermissions, records,
                    auditLog, reqs, organizations >>

\* SuperAdminUserManagementViewSet.destroy (ModelViewSet)
SuperAdmin_destroy ==
  \E actor \in Principals, target \in users :
    /\ Idle
    /\ IF ~IsSuperAdmin(actor)
       THEN /\ last' = Did("superadmin.destroy", actor, Anonymous, Denied(actor))
            /\ UNCHANGED << users, active, profiles, userPermissions, auditLog >>
       ELSE /\ DeleteUserRows(target)
            /\ last' = Did("superadmin.destroy", actor, target, 204)
    /\ UNCHANGED << permissions, rolePermissions, records, reqs, organizations >>

\* UserService.assign_role, called with self.user = actor
UserService_assign_role ==
  \E actor \in Principals, target \in users, role \in RequestRoles :
    /\ Idle
    /\ IF validate_permission(actor, "users.manage_roles") # Proceed
       THEN /\ last' = Did("assign_role", actor, Anonymous,
                           validate_permission(actor, "users.manage_roles"))
            /\ UNCHANGED << profiles, auditLog >>
       ELSE IF ~HasProfile(target)
       THEN /\ last' = Did("assign_role", actor, Anonymous, 404)
            /\ UNCHANGED << profiles, auditLog >>
       ELSE IF role \notin Roles
       THEN /\ last' = Did("assign_role", actor, Anonymous, 400)
            /\ UNCHANGED << profiles, auditLog >>
       ELSE /\ profiles' = SetRole(target, role)
            /\ log_user_action([user |-> actor, action |-> "role_change",
                                target_model |-> "UserProfile", target_id |-> target])
            /\ last' = [Did("assign_role", actor, target, 200) EXCEPT !.name = role]
    /\ UNCHANGED << users, active, permissions, rolePermissions, userPermissions, records,
                    reqs, organizations >>

\* AdminUserManagementViewSet.permission_classes
AdminViewPermitted(actor) == IsAdminOrAbove(actor) /\ CanManageUsers_has_permission(actor)

\* AdminUserManagementViewSet.get_queryset: the users whose Profile role is 'user'
AdminQueryset == {u \in users : HasProfile(u) /\ ProfileOf(u).role = "user"}

\* get_object(): the lookup in the queryset, then the object permissions
AdminGetObject(actor, target) ==
  IF target \notin AdminQueryset THEN 404
  ELSE IF ~CanManageUsers_has_object_permission(actor, target) THEN 403
  ELSE Proceed

AdminCreateRole_from_request(data_role) == IF data_role = "" THEN "user" ELSE data_role

\* the role AdminUserManagementViewSet.create gives the new Profile, whatever
\* 'role' the request body carries
AdminCreateRole(data_role) == "user"

\* AdminUserManagementViewSet.list
Admin_list ==
  \E actor \in Principals :
    /\ Idle
    /\ last' = IF ~AdminViewPermitted(actor)
               THEN Did("admin.list", actor, Anonymous, Denied(actor))
               ELSE [Did("admin.list", actor, Anonymous, 200) EXCEPT !.rows = AdminQueryset]
    /\ UNCHANGED << db, reqs >>

\* AdminUserManagementViewSet.create; complete is whether username, email and
\* password are given and not taken
Admin_create ==
  \E actor \in Principals, n \in Users \ users, data_role \in RequestRoles,
     complete \in BOOLEAN :
    /\ Idle
    /\ IF ~AdminViewPermitted(actor)
       THEN /\ last' = Did("admin.create", actor, Anonymous, Denied(actor))
            /\ UNCHANGED << users, active, profiles >>
       ELSE IF ~complete
       THEN /\ last' = Did("admin.create", actor, Anonymous, 400)
            /\ UNCHANGED << users, active, profiles >>
       ELSE /\ InsertUserWithProfile(n, AdminCreateRole(data_role))
            /\ last' = Did("admin.create", actor, n, 201)
    /\ UNCHANGED << permissions, rolePermissions, userPermissions, records, auditLog, reqs,
                    organizations >>

\* AdminUserManagementViewSet.update (PUT and PATCH): names and email only
Admin_update ==
  \E actor \in Principals, target \in Users, data_role \in RequestRoles :
    /\ Idle
    /\ last' = IF ~AdminViewPermitted(actor)
               THEN Did("admin.update", actor, Anonymous, Denied(actor))
               ELSE IF AdminGetObject(actor, target) # Proceed
               THEN Did("admin.update", actor, Anonymous, AdminGetObject(actor, target))
               ELSE IF data_role # ""
               THEN Did("admin.update", actor, Anonymous, 403)
               ELSE Did("admin.update", actor, target, 200)
    /\ UNCHANGED << db, reqs >>

\* AdminUserManagementViewSet.toggle_active
Admin_toggle_active ==
  \E actor \in Principals, target \in Users :
    /\ Idle
    /\ IF ~AdminViewPermitted(actor)
       THEN /\ last' = Did("admin.toggle_active", actor, Anonymous, Denied(actor))
            /\ UNCHANGED active
       ELSE IF AdminGetObject(actor, target) # Proceed
       THEN /\ last' = Did("admin.toggle_active", actor, Anonymous,
                           AdminGetObject(actor, target))
            /\ UNCHANGED active
       ELSE IF HasProfile(target) /\ ProfileOf(target).role # "user"
       THEN /\ last' = Did("admin.toggle_active", actor, Anonymous, 403)
            /\ UNCHANGED active
       ELSE /\ active' = IF target \in active THEN active \ {target}
                         ELSE active \cup {target}
            /\ last' = Did("admin.toggle_active", actor, target, 200)
    /\ UNCHANGED << users, profiles, permissions, rolePermissions, userPermissions, records,
                    auditLog, reqs, organizations >>

\* AdminUserManagementViewSet.destroy
Admin_destroy ==
  \E actor \in Principals, target \in Users :
    /\ Idle
    /\ IF ~AdminViewPermitted(actor)
       THEN /\ last' = Did("admin.destroy", actor, Anonymous, Denied(actor))
            /\ UNCHANGED << users, active, profiles, userPermissions, auditLog >>
       ELSE IF AdminGetObject(actor, target) # Proceed
       THEN /\ last' = Did("admin.destroy", actor, Anonymous,
                           AdminGetObject(actor, target))
            /\ UNCHANGED << users, active, profiles, userPermissions, auditLog >>
       ELSE IF HasProfile(target) /\ ProfileOf(target).role # "user"
       THEN /\ last' = Did("admin.destroy", actor, Anonymous, 403)
            /\ UNCHANGED << users, active, profiles, userPermissions, auditLog >>
       ELSE /\ DeleteUserRows(target)
            /\ last' = Did("admin.destroy", actor, target, 204)
    /\ UNCHANGED << permissions, rolePermissions, records, reqs, organizations >>

\* UserProfileViewSet.me and profile_me: the caller's Profile, created with
\* the default role when the read finds none
Profile_me ==
  \E actor \in users \cup {Anonymous} :
    /\ Idle
    /\ IF ~is_authenticated(actor)
       THEN /\ last' = Did("profile.me", actor, Anonymous, 401)
            /\ UNCHANGED profiles
       ELSE IF HasProfile(actor)
       THEN /\ last' = Did("profile.me", actor, actor, 200)
            /\ UNCHANGED profiles
       ELSE /\ profiles' = InsertProfile(actor, "user")
            /\ last' = Did("profile.me", actor, actor, 201)
    /\ UNCHANGED << users, active, permissions, rolePermissions, userPermissions, records,
                    auditLog, reqs, organizations >>

\* UserProfileViewSet.update_me
Profile_update_me ==
  \E actor \in users \cup {Anonymous}, data_role \in RequestRoles :
    /\ Idle
    /\ IF ~is_authenticated(actor)
       THEN /\ last' = Did("profile.update_me", actor, Anonymous, 401)
            /\ UNCHANGED profiles
       ELSE /\ profiles' = IF HasProfile(actor) THEN profiles
                           ELSE InsertProfile(actor, "user")
            /\ last' = IF data_role # ""
                       THEN Did("profile.update_me", actor, Anonymous, 403)
                       ELSE Did("profile.update_me", actor, actor, 200)
    /\ UNCHANGED << users, active, permissions, rolePermissions, userPermissions, records,
                    auditLog, reqs, organizations >>

\* UserProfileViewSet.update and partial_update (ModelViewSet), of either
\* profile viewset: UserProfileSerializer writes every field that is not
\* read-only, 'role' among them
Profile_update ==
  \E actor \in users \cup {Anonymous}, target \in users, data_role \in RequestRoles :
    /\ Idle
    /\ IF ~is_authenticated(actor)
       THEN /\ last' = Did("profile.update", actor, Anonymous, 401)
            /\ UNCHANGED profiles
       ELSE IF target # actor \/ ~HasProfile(target)
       THEN /\ last' = Did("profile.update", actor, Anonymous, 404)
            /\ UNCHANGED profiles
       ELSE IF data_role # "" /\ data_role \notin Roles
       THEN /\ last' = Did("profile.update", actor, Anonymous, 400)
            /\ UNCHANGED profiles
       ELSE /\ profiles' = IF data_role = "" THEN profiles ELSE SetRole(target, data_role)
            /\ last' = Did("profile.update", actor, target, 200)
    /\ UNCHANGED << users, active, permissions, rolePermissions, userPermissions, records,
                    auditLog, reqs, organizations >>

\* UserProfileViewSet.create (ModelViewSet): the serializer has no writable
\* user, the insert fails on the missing user and no row is written
Profile_create ==
  \E actor \in users \cup {Anonymous}, data_role \in RequestRoles :
    /\ Idle
    /\ last' = IF ~is_authenticated(actor)
               THEN Did("profile.create", actor, Anonymous, 401)
               ELSE IF data_role # "" /\ data_role \notin Roles
               THEN Did("profile.create", actor, Anonymous, 400)
               ELSE Did("profile.create", actor, Anonymous, 500)
    /\ UNCHANGED << db, reqs >>

\* UserProfileViewSet.destroy (ModelViewSet)
Profile_destroy ==
  \E actor \in users \cup {Anonymous}, target \in users :
    /\ Idle
    /\ IF ~is_authenticated(actor)
       THEN /\ last' = Did("profile.destroy", actor, Anonymous, 401)
            /\ UNCHANGED profiles
       ELSE IF target # actor \/ ~HasProfile(target)
       THEN /\ last' = Did("profile.destroy", actor, Anonymous, 404)
            /\ UNCHANGED profiles
       ELSE /\ profiles' = profiles (-) SetToBag({ProfileOf(target)})
            /\ last' = Did("profile.destroy", actor, target, 204)
    /\ UNCHANGED << users, active, permissions, rolePermissions, userPermissions, records,
                    auditLog, reqs, organizations >>

\* UserViewSet.destroy (ModelViewSet over User.objects.all(), IsAuthenticated)
UserViewSet_destroy ==
  \E actor \in users \cup {Anonymous}, target \in users :
    /\ Idle
    /\ IF ~is_authenticated(actor)
       THEN /\ last' = Did("UserViewSet.destroy", actor, Anonymous, 401)
            /\ UNCHANGED << users, active, profiles, userPermissions, auditLog >>
       ELSE /\ DeleteUserRows(target)
            /\ last' = Did("UserViewSet.destroy", actor, target, 204)
    /\ UNCHANGED << permissions, rolePermissions, records, reqs, organizations >>

\* SupabaseAuthentication.get_or_create_user: u is the user the token's email
\* names, role the role of its app_metadata or user_metadata ("" when none)
get_or_create_user ==
  \E u \in Users, role \in RequestRoles :
    /\ Idle
    /\ IF u \notin users
       THEN InsertUserWithProfile(u, IF role = "" THEN "user" ELSE role)
       ELSE /\ UNCHANGED << users, active >>
            /\ profiles' = IF ~HasProfile(u)
                           THEN InsertProfile(u, IF role = "" THEN "user" ELSE role)
                           ELSE IF role # "" /\ ProfileOf(u).role # role
                           THEN SetRole(u, role)
                           ELSE profiles
    /\ last' = Did("get_or_create_user", u, u, Proceed)
    /\ UNCHANGED << permissions, rolePermissions, userPermissions, records, auditLog, reqs,
                    organizations >>

(***************************************************************************)
(* The tables a request finds: any set of users, each without Profile or   *)
(* with a Profile of any stored role (get_or_create_user stores the        *)
(* token's role as it comes), and the seeded permission tables.            *)
(***************************************************************************)
StoredRoles == Roles \cup {OtherRole}

Init ==
  /\ users \in SUBSET Users
  /\ active = users
  /\ \E f \in [Users -> {NoProfile} \cup (StoredRoles \X {NoOrg})] :
        /\ \A u \in Users \ users : f[u] = NoProfile
        /\ profiles = ProfileBag(f)
  /\ permissions = Catalog
  /\ rolePermissions = SeededRolePermissions
  /\ userPermissions = {}
  /\ records = [i \in RecordIds |-> NoOrg]
  /\ auditLog = << >>
  /\ organizations = AllOrganizations
  /\ reqs = << >>
  /\ last = NoOp

Next ==
  \/ UserViewSet_create
  \/ UserViewSet_destroy
  \/ SuperAdmin_change_role
  \/ SuperAdmin_create_admin
  \/ SuperAdmin_create
  \/ SuperAdmin_toggle_active
  \/ SuperAdmin_destroy
  \/ UserService_assign_role
  \/ Admin_list
  \/ Admin_create
  \/ Admin_update
  \/ Admin_toggle_active
  \/ Admin_destroy
  \/ Profile_me
  \/ Profile_update_me
  \/ Profile_update
  \/ Profile_create
  \/ Profile_destroy
  \/ get_or_create_user

Spec == Init /\ [][Next]_vars

(***************************************************************************)
(* C5: an authenticated principal without a Profile is forbidden by every  *)
(* authorization check: the decorator guards answer 403, the DRF           *)
(* permission classes answer False, validate_permission and validate_role  *)
(* raise a 403 error, and the tenant-isolation guard does not let a        *)
(* request with an attached tenant proceed.                                *)
(***************************************************************************)
DecoratorOps == {"require_permission", "require_role", "superadmin_required",
                 "admin_required"}

PermissionClassOps == {"HasPermission", "HasRole", "decorators.IsSuperAdmin",
                       "decorators.IsAdminOrAbove", "BelongsToTenant", "IsSuperAdmin",
                       "IsAdminOrAbove", "IsAdmin", "CanManageUsers", "CanChangeRole",
                       "CanManageUsers.object"}

ServiceOps == {"validate_permission", "validate_role"}

C5_NoProfileForbidden ==
  (last.op # "none" /\ is_authenticated(last.user) /\ ~HasProfile(last.user)) =>
     /\ last.op \in DecoratorOps => last.status = 403
     /\ last.op \in PermissionClassOps => last.granted = FALSE
     /\ last.op \in ServiceOps => last.status = 403
     /\ (last.op = "tenant_isolation" /\ last.tenant # NoOrg) => last.status # Proceed

(***************************************************************************)
(* C9: CanManageUsers.has_object_permission grants a superadmin requester  *)
(* against every target, grants an admin requester exactly when the        *)
(* target's role is 'user', and denies every other requester (another      *)
(* role, unauthenticated, without Profile) against every target.           *)
(***************************************************************************)
C9_CanManageUsers ==
  last.op = "CanManageUsers.object" =>
    LET u == last.user
        obj == last.target
        role == IF is_authenticated(u) /\ HasProfile(u) THEN ProfileOf(u).role ELSE ""
    IN /\ role = "superadmin" => last.granted = TRUE
       /\ role = "admin" =>
            (last.granted = TRUE <=> (HasProfile(obj) /\ ProfileOf(obj).role = "user"))
       /\ role \notin {"superadmin", "admin"} => last.granted = FALSE

C9_Witness ==
  /\ last.op = "CanManageUsers.object"
  /\ HasProfile(last.user) /\ ProfileOf(last.user).role = "admin"
  /\ HasProfile(last.target) /\ ProfileOf(last.target).role = "admin"
  /\ last.target # last.user
  /\ last.granted = FALSE

(***************************************************************************)
(* Role changes.  Each property below constrains one step (the tables      *)
(* before, the request in last', the tables after); Init ranges over every *)
(* state of the user tables, so it holds of every step of every sequence.  *)
(***************************************************************************)
\* the role stored for u differs before and after the step
RoleChanged(u) ==
  /\ HasProfile(u)
  /\ HasProfile(u)'
  /\ ProfileOf(u)'.role # ProfileOf(u).role

\* C6: every step that changes the role of an existing Profile is performed
\* by an acting principal whose role (before the step) is superadmin.
C6_OnlySuperadminsChangeRoles ==
  [][ \A actor \in Principals :
        (last'.user = actor /\ \E u \in users : RoleChanged(u)) => IsSuperAdmin(actor) ]_vars

ProfileEndpointOps == {"profile.me", "profile.update_me", "profile.create", "profile.update"}

\* C7: a request of a non-superadmin principal to the profile endpoints (me,
\* update_me, create, update, partial_update) leaves the role of that
\* principal's Profile as it was.
C7_UsersCannotChangeOwnRole ==
  [][ \A actor \in Users :
        ( /\ last'.user = actor
          /\ last'.op \in ProfileEndpointOps
          /\ HasProfile(actor)
          /\ ProfileOf(actor).role # "superadmin" )
        => ( /\ HasProfile(actor)'
             /\ ProfileOf(actor)'.role = ProfileOf(actor).role ) ]_vars

AdminOps == {"admin.list", "admin.create", "admin.update", "admin.toggle_active",
             "admin.destroy"}

\* C8: a request a principal of role admin sends to AdminUserManagementViewSet
\* (list, create, update, toggle_active, destroy) does not delete, deactivate,
\* activate or update a user whose Profile role is other than 'user', creates
\* no user with another role than 'user', and changes no existing Profile.
C8_AdminsManageRegularUsersOnly ==
  [][ \A actor \in Users :
        ( /\ last'.user = actor
          /\ last'.op \in AdminOps
          /\ HasProfile(actor)
          /\ ProfileOf(actor).role = "admin" )
        => ( /\ \A u \in users :
                  (HasProfile(u) /\ ProfileOf(u).role # "user")
                  => ( /\ u \in users'
                       /\ (u \in active' <=> u \in active)
                       /\ last'.target # u )
             /\ \A n \in users' \ users :
                  ProfileRows(n)' = {NewProfile(n, "user", NoOrg)}
             /\ \A u \in users \cap users' : ProfileRows(u)' = ProfileRows(u) ) ]_vars

\* an admin has deleted a regular user
C8_Witness ==
  /\ last.op = "admin.destroy"
  /\ last.status = 204
  /\ HasProfile(last.user)
  /\ ProfileOf(last.user).role = "admin"
  /\ last.target \notin users
  /\ ~HasProfile(last.target)

(***************************************************************************)
(* Auto-creation of a missing Profile under parallel requests.  A request  *)
(* reads the caller's Profile and, when the read finds none, inserts one   *)
(* in a later step; other requests run in between.  Two code places do     *)
(* this: RoleAuthMiddleware.process_request and the profile_me / me views. *)
(***************************************************************************)
NumRequests == 2

RequestIds == 1..NumRequests

RequestKinds == {"RoleAuthMiddleware", "profile_me"}

\* a request before its first step
NewRequest(u, kind) ==
  [user |-> u, kind |-> kind, pc |-> "read", found |-> FALSE, user_role |-> "",
   status |-> 0, facts |-> NoRoleFacts, error |-> FALSE]

\* RoleAuthMiddleware.process_request up to the read of request.user.profile
RoleAuthMiddleware_read(r) ==
  /\ r \in DOMAIN reqs
  /\ reqs[r].kind = "RoleAuthMiddleware"
  /\ reqs[r].pc = "read"
  /\ reqs' = [reqs EXCEPT ![r] =
       IF ~is_authenticated(reqs[r].user)
       THEN [@ EXCEPT !.pc = "done", !.user_role = "", !.status = Proceed,
                      !.facts = NoRoleFacts]
       ELSE IF HasProfile(reqs[r].user)
       THEN [@ EXCEPT !.pc = "done", !.found = TRUE,
                      !.user_role = ProfileOf(reqs[r].user).role, !.status = Proceed,
                      !.facts = ProfileFacts(ProfileOf(reqs[r].user))]
       ELSE [@ EXCEPT !.pc = "create"]]
  /\ UNCHANGED << db, last >>

\* RoleAuthMiddleware.process_request from UserProfile.objects.create on: the
\* insert, or its IntegrityError caught by the except branch
RoleAuthMiddleware_create(r) ==
  /\ r \in DOMAIN reqs
  /\ reqs[r].kind = "RoleAuthMiddleware"
  /\ reqs[r].pc = "create"
  /\ IF UniqueViolation(reqs[r].user)
     THEN /\ reqs' = [reqs EXCEPT ![r] =
                        [@ EXCEPT !.pc = "done", !.user_role = "", !.status = Proceed,
                                  !.facts = NoRoleFacts, !.error = TRUE]]
          /\ UNCHANGED profiles
     ELSE /\ profiles' = InsertProfile(reqs[r].user, "user")
          /\ reqs' = [reqs EXCEPT ![r] =
                        [@ EXCEPT !.pc = "done", !.user_role = "user", !.status = Proceed,
                                  !.facts = CreatedProfileFacts]]
  /\ UNCHANGED << users, active, permissions, rolePermissions, userPermissions, records,
                  auditLog, last, organizations >>

\* profile_me and UserProfileViewSet.me up to the read of the Profile
profile_me_read(r) ==
  /\ r \in DOMAIN reqs
  /\ reqs[r].kind = "profile_me"
  /\ reqs[r].pc = "read"
  /\ reqs' = [reqs EXCEPT ![r] =
       IF ~is_authenticated(reqs[r].user)
       THEN [@ EXCEPT !.pc = "done", !.status = 401]
       ELSE IF HasProfile(reqs[r].user)
       THEN [@ EXCEPT !.pc = "done", !.found = TRUE,
                      !.user_role = ProfileOf(reqs[r].user).role, !.status = 200]
       ELSE [@ EXCEPT !.pc = "create"]]
  /\ UNCHANGED << db, last >>

\* profile_me and UserProfileViewSet.me in the DoesNotExist branch: the insert,
\* or its IntegrityError, which the view does not catch
profile_me_create(r) ==
  /\ r \in DOMAIN reqs
  /\ reqs[r].kind = "profile_me"
  /\ reqs[r].pc = "create"
  /\ IF UniqueViolation(reqs[r].user)
     THEN /\ reqs' = [reqs EXCEPT ![r] =
                        [@ EXCEPT !.pc = "done", !.status = 500, !.error = TRUE]]
          /\ UNCHANGED profiles
     ELSE /\ profiles' = InsertProfile(reqs[r].user, "user")
          /\ reqs' = [reqs EXCEPT ![r] =
                        [@ EXCEPT !.pc = "done", !.user_role = "user", !.status = 201]]
  /\ UNCHANGED << users, active, permissions, rolePermissions, userPermissions, records,
                  auditLog, last, organizations >>

\* the Profile a user has before the requests, when it has one
HealInitialProfiles == {NoProfile, << "admin", 1 >>, << "superadmin", NoOrg >>}

InitHeal ==
  /\ users = Users
  /\ active = Users
  /\ \E f \in [Users -> HealInitialProfiles] : profiles = ProfileBag(f)
  /\ permissions = Catalog
  /\ rolePermissions = SeededRolePermissions
  /\ userPermissions = {}
  /\ records = [i \in RecordIds |-> NoOrg]
  /\ auditLog = << >>
  /\ organizations = AllOrganizations
  /\ \E who \in [RequestIds -> Principals], kind \in [RequestIds -> RequestKinds] :
        reqs = [r \in RequestIds |-> NewRequest(who[r], kind[r])]
  /\ last = NoOp

NextHeal ==
  \E r \in RequestIds :
    \/ RoleAuthMiddleware_read(r)
    \/ RoleAuthMiddleware_create(r)
    \/ profile_me_read(r)
    \/ profile_me_create(r)

SpecHeal == InitHeal /\ [][NextHeal]_vars

\* the number of Profile rows of user u
ProfileCount(u) == BagCardinality([r \in ProfileRows(u) |-> profiles[r]])

\* C10: no user ever has two Profile rows; once a request of an authenticated
\* principal has completed that principal has exactly one Profile row, and
\* when the request found no Profile that row has role 'user' and no
\* organization.
C10_AutoHealOnce ==
  /\ \A u \in Users : ProfileCount(u) <= 1
  /\ \A r \in DOMAIN reqs :
       (reqs[r].pc = "done" /\ is_authenticated(reqs[r].user))
       => /\ ProfileCount(reqs[r].user) = 1
          /\ ~reqs[r].found => ProfileOf(reqs[r].user) = NewProfile(reqs[r].user, "user", NoOrg)

\* two requests of one principal both found no Profile; one inserted it, the
\* other's insert was refused
C10_Witness ==
  \E r1, r2 \in DOMAIN reqs :
    /\ r1 # r2
    /\ reqs[r1].user = reqs[r2].user
    /\ is_authenticated(reqs[r1].user)
    /\ reqs[r1].pc = "done" /\ reqs[r2].pc = "done"
    /\ ~reqs[r1].found /\ ~reqs[r2].found
    /\ reqs[r1].user_role = "user"
    /\ reqs[r2].user_role = ""
    /\ ProfileCount(reqs[r1].user) = 1

(***************************************************************************)
(* Tenant detection from the URL path.  A path is the list of its          *)
(* segments, request.path.split('/'): the first is empty because the path  *)
(* starts with '/'.  The middleware chain stops at the first middleware    *)
(* that answers the request.                                               *)
(***************************************************************************)
MaxSegments == 3

Segments == {"", "api", "org", "admin", "auth", "organizations", "users", "nope"}
              \cup {OrgSlugs[i] : i \in Orgs}

RECURSIVE SeqsUpTo(_, _)
SeqsUpTo(S, n) ==
  IF n = 0 THEN {<< >>}
  ELSE LET shorter == SeqsUpTo(S, n - 1)
       IN  shorter \cup {Append(q, x) : q \in {t \in shorter : Len(t) = n - 1}, x \in S}

Paths == {<< "" >> \o q : q \in SeqsUpTo(Segments, MaxSegments)}

\* request.path.startswith(prefix), prefix given without its closing '/'
StartsWith(path_parts, prefix) ==
  /\ Len(path_parts) > Len(prefix)
  /\ \A i \in 1..Len(prefix) : path_parts[i] = prefix[i]

skip_paths == { << "", "admin" >>, << "", "api", "auth" >>, << "", "api", "health" >>,
                << "", "api", "docs" >>, << "", "api", "schema" >>, << "", "static" >>,
                << "", "media" >> }

tenant_required_paths == { << "", "api", "org" >> }

exempt_paths == skip_paths \cup { << "", "api", "organizations" >> }

index_last(path_parts, x) ==
  CHOOSE i \in 1..Len(path_parts) :
    path_parts[i] = x /\ \A j \in (i + 1)..Len(path_parts) : path_parts[j] # x

\* path_parts.index(x): the first position holding x
index(path_parts, x) ==
  CHOOSE i \in 1..Len(path_parts) :
    path_parts[i] = x /\ \A j \in 1..(i - 1) : path_parts[j] # x

\* Organization.objects.get(slug=org_slug): the id found, NoOrg for DoesNotExist
get_by_slug(org_slug) ==
  IF \E o \in organizations : o.slug = org_slug
  THEN (CHOOSE o \in organizations : o.slug = org_slug).id
  ELSE NoOrg

\* TenantDetectionMiddleware.process_request: request.tenant, request.org_slug
\* and the answer
TenantDetection(path_parts) ==
  LET none == [tenant |-> NoOrg, org_slug |-> "", status |-> Proceed] IN
  IF \E pre \in skip_paths : StartsWith(path_parts, pre) THEN none
  ELSE IF ~\E i \in 1..Len(path_parts) : path_parts[i] = "org" THEN none
  ELSE LET org_index == index(path_parts, "org") IN
       IF ~(Len(path_parts) > org_index) THEN none
       ELSE LET org_slug == path_parts[org_index + 1] IN
            IF org_slug = "" THEN none
            ELSE IF get_by_slug(org_slug) = NoOrg
            THEN [tenant |-> NoOrg, org_slug |-> org_slug, status |-> 404]
            ELSE [tenant |-> get_by_slug(org_slug), org_slug |-> org_slug,
                  status |-> Proceed]

TenantRequired_exempt_api(path_parts, tenant) ==
  IF \E pre \in exempt_paths \cup { << "", "api" >> } : StartsWith(path_parts, pre)
  THEN Proceed
  ELSE IF (\E pre \in tenant_required_paths : StartsWith(path_parts, pre)) /\ tenant = NoOrg
  THEN 400
  ELSE Proceed

\* TenantRequiredMiddleware.process_request
TenantRequired(path_parts, tenant) ==
  IF \E pre \in exempt_paths : StartsWith(path_parts, pre) THEN Proceed
  ELSE IF (\E pre \in tenant_required_paths : StartsWith(path_parts, pre)) /\ tenant = NoOrg
  THEN 400
  ELSE Proceed

\* the keys of the JSON bodies of the two middlewares' JsonResponses
TenantDetection_body(path_parts) ==
  IF TenantDetection(path_parts).status = 404 THEN {"error", "detail", "org_slug"} ELSE {}

TenantRequired_body(path_parts, tenant) ==
  IF TenantRequired(path_parts, tenant) = 400
  THEN {"error", "detail", "expected_format"}
  ELSE {}

TenantDetectionMiddleware_process_request ==
  /\ Idle
  /\ \E path_parts \in Paths :
    /\ last' = [NoOp EXCEPT !.op = "TenantDetection", !.path = path_parts,
                            !.tenant = TenantDetection(path_parts).tenant,
                            !.name = TenantDetection(path_parts).org_slug,
                            !.status = TenantDetection(path_parts).status,
                            !.body = TenantDetection_body(path_parts)]
    /\ UNCHANGED << db, reqs >>

TenantRequiredMiddleware_process_request ==
  /\ last.op = "TenantDetection"
  /\ last.status = Proceed
  /\ last' = [last EXCEPT !.op = "TenantRequired",
                          !.status = TenantRequired(last.path, last.tenant),
                          !.body = TenantRequired_body(last.path, last.tenant)]
  /\ UNCHANGED << db, reqs >>

\* the view the request is routed to once no middleware has answered
Handler ==
  /\ last.op = "TenantRequired"
  /\ last.status = Proceed
  /\ last' = [last EXCEPT !.op = "handler"]
  /\ UNCHANGED << db, reqs >>

InitTenant ==
  /\ users = Users
  /\ active = Users
  /\ profiles = EmptyBag
  /\ permissions = Catalog
  /\ rolePermissions = SeededRolePermissions
  /\ userPermissions = {}
  /\ records = [i \in RecordIds |-> NoOrg]
  /\ auditLog = << >>
  /\ organizations \in SUBSET AllOrganizations
  /\ reqs = << >>
  /\ last = NoOp

NextTenant ==
  \/ TenantDetectionMiddleware_process_request
  \/ TenantRequiredMiddleware_process_request
  \/ Handler

SpecTenant == InitTenant /\ [][NextTenant]_vars

HasOrgSegment(path_parts) == \E i \in 1..Len(path_parts) : path_parts[i] = "org"

FirstOrgAt(path_parts, i) ==
  path_parts[i] = "org" /\ \A j \in 1..(i - 1) : path_parts[j] # "org"

\* the segment after the first 'org' segment, "" when there is none
SlugSegment(path_parts) ==
  IF \E i \in 1..(Len(path_parts) - 1) : FirstOrgAt(path_parts, i)
  THEN path_parts[(CHOOSE i \in 1..(Len(path_parts) - 1) : FirstOrgAt(path_parts, i)) + 1]
  ELSE ""

Skipped(path_parts) == \E pre \in skip_paths : StartsWith(path_parts, pre)

\* C11: on a path outside the skip list the tenant resolver proceeds with no
\* tenant when no segment is 'org'; answers 404, after which neither the next
\* middleware nor the handler runs, when the segment after the first 'org' is
\* a non-empty slug of no Organization; attaches the Organization of that
\* slug when there is one; and an attached tenant always has the slug that
\* follows the first 'org' segment.
C11_TenantResolver ==
  /\ (last.op = "TenantDetection" /\ ~Skipped(last.path)) =>
        /\ ~HasOrgSegment(last.path) => (last.tenant = NoOrg /\ last.status = Proceed)
        /\ (SlugSegment(last.path) # ""
              /\ ~\E o \in organizations : o.slug = SlugSegment(last.path))
           => (last.status = 404 /\ last.tenant = NoOrg)
        /\ (SlugSegment(last.path) # ""
              /\ \E o \in organizations : o.slug = SlugSegment(last.path))
           => (last.status = Proceed
                 /\ Organization(last.tenant) \in organizations
                 /\ Organization(last.tenant).slug = SlugSegment(last.path))
        /\ last.status \in {Proceed, 404}
  /\ (last.op \in {"TenantDetection", "TenantRequired", "handler"} /\ last.tenant # NoOrg) =>
        /\ Organization(last.tenant) \in organizations
        /\ Organization(last.tenant).slug = SlugSegment(last.path)
  /\ (last.op \in {"TenantRequired", "handler"}) =>
        ~(SlugSegment(last.path) # "" /\ ~Skipped(last.path)
            /\ ~\E o \in organizations : o.slug = SlugSegment(last.path))

\* a path with two 'org' segments resolved by the slug after the first one
C11_Witness ==
  /\ last.op = "TenantDetection"
  /\ last.tenant # NoOrg
  /\ last.status = Proceed
  /\ Cardinality({i \in 1..Len(last.path) : last.path[i] = "org"}) = 2
  /\ Organization(last.tenant).slug = SlugSegment(last.path)

\* C12: a request under '/api/org/' is answered 400 by the tenant-required
\* guard exactly when no tenant is attached, and a request under '/api/org/'
\* that reaches the handler has a tenant attached.
C12_TenantRequired ==
  /\ (last.op = "TenantRequired" /\ StartsWith(last.path, << "", "api", "org" >>)) =>
        (last.status = 400 <=> last.tenant = NoOrg)
  /\ (last.op = "TenantRequired" /\ last.status = 400) =>
        StartsWith(last.path, << "", "api", "org" >>)
  /\ (last.op = "handler" /\ StartsWith(last.path, << "", "api", "org" >>)) =>
        last.tenant # NoOrg

\* '/api/org//...' : no slug, no tenant, refused with 400
C12_Witness ==
  /\ last.op = "TenantRequired"
  /\ StartsWith(last.path, << "", "api", "org" >>)
  /\ last.tenant = NoOrg
  /\ last.status = 400

(***************************************************************************)
(* Order of the checks inside the decorator guards.                        *)
(***************************************************************************)
GuardOps == {"require_permission", "require_role", "superadmin_required", "admin_required",
             "require_tenant"}

\* the guard's own predicate, for a requester with a Profile
GuardPredicate(g) ==
  CASE g.op = "require_permission" -> has_permission(ProfileOf(g.user), g.name)
    [] g.op = "require_role" -> ProfileOf(g.user).role \in g.names
    [] g.op = "superadmin_required" -> is_superadmin(ProfileOf(g.user))
    [] g.op = "admin_required" -> is_admin_or_above(ProfileOf(g.user))
    [] g.op = "require_tenant" -> g.tenant # NoOrg

\* C13: every guard answers 401 to an unauthenticated request, 403 to an
\* authenticated request without Profile, and only then evaluates its own
\* predicate (403 on failure, 400 for the tenant guard); the handler runs
\* only when all three pass.
C13_GuardOrder ==
  last.op \in GuardOps =>
    /\ ~is_authenticated(last.user) => last.status = 401
    /\ (is_authenticated(last.user) /\ ~HasProfile(last.user)) => last.status = 403
    /\ (is_authenticated(last.user) /\ HasProfile(last.user)) =>
          last.status = IF GuardPredicate(last) THEN Proceed
                        ELSE IF last.op = "require_tenant" THEN 400 ELSE 403

(***************************************************************************)
(* Service layer operations and their audit rows.  Inside                  *)
(* @transaction.atomic a failed insert marks the transaction for rollback  *)
(* (Model.save_base) before log_user_action swallows the exception, and    *)
(* leaving the atomic block then rolls everything back.                    *)
(***************************************************************************)
AuditEntry(actor, action, target_model, target_id) ==
  [user |-> actor, action |-> action, target_model |-> target_model, target_id |-> target_id]

\* profile.organization = organization; profile.save()
SetOrganization(u, org) ==
  (profiles (-) SetToBag({ProfileOf(u)}))
     (+) SetToBag({[ProfileOf(u) EXCEPT !.organization = org]})

\* what leaving the atomic block does with the writes made inside it, given
\* whether the AuditLog insert went through
atomic_commits(audit_written) == audit_written

\* UserService.create_user_with_profile; taken: the username or email exists
UserService_create_user_with_profile ==
  \E actor \in Principals, n \in Users \ users, org \in OrgOrNone, role \in StoredRoles,
     taken \in BOOLEAN, audit_written \in BOOLEAN :
    /\ Idle
    /\ IF org = NoOrg \/ taken
       THEN /\ last' = Did("create_user_with_profile", actor, Anonymous, 400)
            /\ UNCHANGED << users, active, profiles, auditLog >>
       ELSE /\ last' = [Did("create_user_with_profile", actor, n, Proceed) EXCEPT
                          !.name = role, !.tenant = org]
            /\ IF atomic_commits(audit_written)
               THEN /\ users' = users \cup {n}
                    /\ active' = active \cup {n}
                    /\ profiles' = profiles (+) SetToBag({NewProfile(n, role, org)})
                    /\ auditLog' = IF audit_written
                                   THEN Append(auditLog,
                                          AuditEntry(IF is_authenticated(actor) THEN actor ELSE n,
                                                     "create", "User", n))
                                   ELSE auditLog
               ELSE UNCHANGED << users, active, profiles, auditLog >>
    /\ UNCHANGED << permissions, rolePermissions, userPermissions, records, organizations,
                    reqs >>

\* OrganizationService.create_organization of the organization with id i
OrganizationService_create_organization ==
  \E actor \in Principals, i \in Orgs, audit_written \in BOOLEAN :
    /\ Idle
    /\ IF \E o \in organizations : o.slug = Organization(i).slug
       THEN /\ last' = Did("create_organization", actor, Anonymous, 400)
            /\ UNCHANGED << organizations, auditLog >>
       ELSE /\ last' = [Did("create_organization", actor, Anonymous, Proceed) EXCEPT
                          !.tenant = i]
            /\ IF ~is_authenticated(actor)
               THEN /\ organizations' = organizations \cup {Organization(i)}
                    /\ UNCHANGED auditLog
               ELSE IF atomic_commits(audit_written)
               THEN /\ organizations' = organizations \cup {Organization(i)}
                    /\ auditLog' = IF audit_written
                                   THEN Append(auditLog,
                                          AuditEntry(actor, "create", "Organization", i))
                                   ELSE auditLog
               ELSE UNCHANGED << organizations, auditLog >>
    /\ UNCHANGED << users, active, profiles, permissions, rolePermissions, userPermissions,
                    records, reqs >>

\* UserService.assign_user_to_organization
UserService_assign_user_to_organization ==
  \E actor \in Principals, target \in users, o \in organizations :
    /\ Idle
    /\ IF validate_permission(actor, "users.manage_organization") # Proceed
       THEN /\ last' = Did("assign_user_to_organization", actor, Anonymous,
                           validate_permission(actor, "users.manage_organization"))
            /\ UNCHANGED << profiles, auditLog >>
       ELSE IF ~HasProfile(target)
       THEN /\ last' = Did("assign_user_to_organization", actor, Anonymous, 404)
            /\ UNCHANGED << profiles, auditLog >>
       ELSE /\ profiles' = SetOrganization(target, o.id)
            /\ log_user_action(AuditEntry(actor, "update", "UserProfile", target))
            /\ last' = [Did("assign_user_to_organization", actor, target, Proceed) EXCEPT
                          !.tenant = o.id]
    /\ UNCHANGED << users, active, permissions, rolePermissions, userPermissions, records,
                    organizations, reqs >>

ServiceInitialProfiles == {NoProfile, << "superadmin", NoOrg >>, << "user", NoOrg >>}

InitService ==
  /\ users \in SUBSET Users
  /\ active = users
  /\ \E f \in [Users -> ServiceInitialProfiles] :
        /\ \A u \in Users \ users : f[u] = NoProfile
        /\ profiles = ProfileBag(f)
  /\ permissions = Catalog
  /\ rolePermissions = SeededRolePermissions
  /\ userPermissions = {}
  /\ records = [i \in RecordIds |-> NoOrg]
  /\ auditLog = << >>
  /\ organizations \in SUBSET AllOrganizations
  /\ reqs = << >>
  /\ last = NoOp

NextService ==
  \/ UserService_create_user_with_profile
  \/ UserService_assign_role
  \/ UserService_assign_user_to_organization
  \/ OrganizationService_create_organization

SpecService == InitService /\ [][NextService]_vars

\* C14: a service operation that returns its result has its effect stored,
\* whether or not the audit row could be written: the created user and
\* Profile, the created organization, the changed role, the changed
\* organization.
C14_AuditNeverBlocks ==
  /\ (last.op = "create_user_with_profile" /\ last.status = Proceed) =>
        /\ last.target \in users
        /\ ProfileRows(last.target) = {NewProfile(last.target, last.name, last.tenant)}
  /\ (last.op = "create_organization" /\ last.status = Proceed) =>
        Organization(last.tenant) \in organizations
  /\ (last.op = "assign_role" /\ last.status = 200) =>
        ProfileOf(last.target).role = last.name
  /\ (last.op = "assign_user_to_organization" /\ last.status = Proceed) =>
        ProfileOf(last.target).organization = last.tenant

(***************************************************************************)
(* The seed command (manage.py seed_permissions), run on any contents of   *)
(* the Permission and RolePermission tables, and run again.                *)
(***************************************************************************)
\* a Permission that is not part of permissions_data
CustomPermission == "custom_permission"

SeedRows ==
  UNION {{[role |-> r, permission |-> n] : n \in role_permissions_map[r]} : r \in Roles}

seed_created_permissions_all(perms) == Catalog

\* the names for which Permission.objects.get_or_create reports created
seed_created_permissions(perms) == {n \in Catalog : n \notin perms}

\* the rows for which RolePermission.objects.get_or_create reports created;
\* a name without Permission row is skipped (Permission.DoesNotExist)
seed_created_mappings(perms, rps) ==
  {rp \in SeedRows : rp.permission \in perms /\ rp \notin rps}

\* Command.handle
seed_permissions ==
  LET created == seed_created_permissions(permissions)
      perms_after == permissions \cup Catalog
      mapped == seed_created_mappings(perms_after, rolePermissions)
  IN  /\ permissions' = perms_after
      /\ rolePermissions' = rolePermissions \cup mapped
      /\ last' = [NoOp EXCEPT !.op = "seed_permissions",
                              !.created_count = Cardinality(created),
                              !.mapping_count = Cardinality(mapped)]
      /\ UNCHANGED << users, active, profiles, userPermissions, records, auditLog,
                      organizations, reqs >>

SeedSamplePermissions == {permissions_data[i] : i \in 1..NumPerms} \cup {CustomPermission}

InitSeed ==
  /\ users = Users
  /\ active = Users
  /\ profiles = EmptyBag
  /\ permissions \in SUBSET SeedSamplePermissions
  /\ rolePermissions \in
       SUBSET {[role |-> r, permission |-> n] : r \in {"admin", "user"}, n \in permissions}
  /\ userPermissions = {}
  /\ records = [i \in RecordIds |-> NoOrg]
  /\ auditLog = << >>
  /\ organizations = AllOrganizations
  /\ reqs = << >>
  /\ last = NoOp

NextSeed == seed_permissions

SpecSeed == InitSeed /\ [][NextSeed]_vars

\* C15: every run of the seed command reports as many new permissions and
\* new mappings as it added rows, and a run that follows another run adds
\* no row and reports 0 and 0.
C15_SeedIdempotent ==
  [][ /\ last'.op = "seed_permissions" =>
           /\ last'.created_count = Cardinality(permissions' \ permissions)
           /\ last'.mapping_count = Cardinality(rolePermissions' \ rolePermissions)
      /\ (last.op = "seed_permissions" /\ last'.op = "seed_permissions") =>
           /\ permissions' = permissions
           /\ rolePermissions' = rolePermissions
           /\ last'.created_count = 0
           /\ last'.mapping_count = 0 ]_vars

\* the seed command ran and found every row in place: a second run
C15_Witness ==
  /\ last.op = "seed_permissions"
  /\ last.created_count = 0
  /\ last.mapping_count = 0
  /\ Catalog \subseteq permissions
  /\ SeedRows \subseteq rolePermissions

(***************************************************************************)
(* get_permissions against has_permission.                                 *)
(***************************************************************************)
\* C16: in every state of the RolePermission and UserPermission tables and
\* of the roles, a catalog permission is in get_permissions of a principal
\* exactly when has_permission is true for it, and the list a call of
\* get_permissions returned agrees with has_permission on the same tables.
C16_PermissionsConsistent ==
  /\ \A u \in Users : HasProfile(u) =>
        LET p == ProfileOf(u)
            names == get_permissions(p)
        IN  \A n \in permissions : n \in names <=> has_permission(p, n)
  /\ last.op = "get_permissions" =>
        LET p == ProfileOf(last.user)
        IN  \A n \in permissions : n \in last.names <=> has_permission(p, n)

\* a non-superadmin whose list was read while it held one permission through
\* a granted override only and a not-granted override next to it
C16_Witness ==
  /\ last.op = "get_permissions"
  /\ ProfileOf(last.user).role # "superadmin"
  /\ rolePermissions = {}
  /\ \E up \in userPermissions :
        up.user = last.user /\ up.granted = TRUE /\ up.permission \in last.names
  /\ \E up \in userPermissions :
        up.user = last.user /\ up.granted = FALSE /\ up.permission \notin last.names

(***************************************************************************)
(* The seed command on an empty store, followed by permission checks.      *)
(***************************************************************************)
\* profile.has_permission(n) asked once the seed command has run
has_permission_after_seed ==
  \E u \in Users, n \in Catalog :
    /\ last.op = "seed_permissions"
    /\ HasProfile(u)
    /\ last' = [Checked("has_permission", u) EXCEPT
                  !.name = n, !.granted = has_permission(ProfileOf(u), n)]
    /\ UNCHANGED << db, reqs >>

InitEmptyStore ==
  /\ users = Users
  /\ active = Users
  /\ \E f \in [Users -> Roles \X {NoOrg}] : profiles = ProfileBag(f)
  /\ permissions = {}
  /\ rolePermissions = {}
  /\ userPermissions = {}
  /\ records = [i \in RecordIds |-> NoOrg]
  /\ auditLog = << >>
  /\ organizations = AllOrganizations
  /\ reqs = << >>
  /\ last = NoOp

NextSeeded ==
  \/ seed_permissions
  \/ has_permission_after_seed

SpecSeeded == InitEmptyStore /\ [][NextSeeded]_vars

\* C17: after the seed command ran on an empty store, with no overrides, a
\* principal of role manager has 'view_dashboard' and does not have
\* 'manage_system_settings'.
C17_SeededManager ==
  (last.op = "has_permission" /\ ProfileOf(last.user).role = "manager") =>
     /\ last.name = "view_dashboard" => last.granted = TRUE
     /\ last.name = "manage_system_settings" => last.granted = FALSE

C17_Witness ==
  /\ last.op = "has_permission"
  /\ ProfileOf(last.user).role = "manager"
  /\ last.name = "manage_system_settings"
  /\ last.granted = FALSE
  /\ userPermissions = {}
  /\ [role |-> "manager", permission |-> "view_dashboard"] \in rolePermissions

(***************************************************************************)
(* Instance-level access check against the collection-level one.           *)
(***************************************************************************)
\* C18: for every principal and every record, is_accessible_by answers true
\* exactly when the record is in accessible_by of that principal.
C18_InstanceMirrorsCollection ==
  last.op = "is_accessible_by" =>
    \A i \in last.rows : last.granted <=> i \in accessible_by(last.user)

(***************************************************************************)
(* The 'admin or above' gates.                                             *)
(***************************************************************************)
\* C19: the admin_required decorator and the two IsAdminOrAbove permission
\* classes admit a principal with a Profile exactly when its role is admin
\* or superadmin.
C19_AdminOrAboveGates ==
  (is_authenticated(last.user) /\ HasProfile(last.user)) =>
     /\ last.op = "admin_required" =>
          (last.status = Proceed <=> ProfileOf(last.user).role \in {"admin", "superadmin"})
     /\ last.op \in {"decorators.IsAdminOrAbove", "IsAdminOrAbove"} =>
          (last.granted <=> ProfileOf(last.user).role \in {"admin", "superadmin"})

(***************************************************************************)
(* Owner-or-admin object permission.                                       *)
(***************************************************************************)
\* the owning principal of an object: its owner attribute, else its user
\* attribute, Absent when it has neither
OwningPrincipal(obj) == IF obj.owner # Absent THEN obj.owner ELSE obj.user

\* C20: IsOwnerOrAdminOrAbove grants an admin or superadmin; to every other
\* requester, one without Profile included, it grants exactly when the
\* object's owning principal (owner, else user) is the requester, and it
\* denies an object with neither attribute.
C20_OwnerOrAdmin ==
  last.op = "IsOwnerOrAdminOrAbove" =>
    IF is_authenticated(last.user) /\ HasProfile(last.user)
         /\ ProfileOf(last.user).role \in {"admin", "superadmin"}
    THEN last.granted = TRUE
    ELSE last.granted <=>
           (OwningPrincipal(last.obj) # Absent /\ OwningPrincipal(last.obj) = last.user)

\* a requester without Profile is granted its own object, named by owner
\* while the user attribute names somebody else
C20_Witness ==
  /\ last.op = "IsOwnerOrAdminOrAbove"
  /\ is_authenticated(last.user)
  /\ ~HasProfile(last.user)
  /\ last.obj.owner = last.user
  /\ last.obj.user \in Users \ {last.user}
  /\ last.granted = TRUE

(***************************************************************************)
(* Denial responses of the decorator guards and the middleware pipeline.   *)
(***************************************************************************)
DenialStatuses == {400, 401, 403, 404}

ResponseOps == {"require_permission", "require_role", "superadmin_required",
                "admin_required", "require_tenant", "tenant_isolation",
                "TenantDetection", "TenantRequired", "process_view"}

\* C21: every denial a decorator guard or a middleware answers has one of
\* the statuses 400, 401, 403, 404 and a JSON body holding both an 'error'
\* and a 'detail' key.
C21_DenialBody ==
  (last.op \in ResponseOps /\ last.status # Proceed) =>
     /\ last.status \in DenialStatuses
     /\ {"error", "detail"} \subseteq last.body

\* C22: a request of an authenticated principal that has completed, whatever
\* the interleaving with another request of the same principal, holds the
\* role of the principal's single Profile row (role attachment) or was
\* answered 200/201 (me endpoints); none ends with 'no role' facts or an
\* error because the other request inserted the row first.
C22_ConcurrentFirstAccess ==
  \A r \in DOMAIN reqs :
    (reqs[r].pc = "done" /\ is_authenticated(reqs[r].user)) =>
       /\ HasProfile(reqs[r].user)
       /\ reqs[r].user_role = ProfileOf(reqs[r].user).role
       /\ reqs[r].kind = "RoleAuthMiddleware" => reqs[r].status = Proceed
       /\ reqs[r].kind = "profile_me" => reqs[r].status \in {200, 201}

(***************************************************************************)
(* RoleAuthMiddleware (api/middleware/role_auth_middleware.py) on one      *)
(* request: process_request attaches the role facts, process_view applies  *)
(* the role threshold of the view.                                         *)
(***************************************************************************)
\* a role name outside role_hierarchy and outside ROLE_CHOICES
UnknownRole == "guest"

\* view_func.required_role; "" is a view that declares none
RequiredRoles == Roles \cup {"", UnknownRole}

role_hierarchy_manager_as_admin(role) ==
  CASE role = "superadmin" -> 3
    [] role \in {"admin", "manager"} -> 2
    [] role = "user" -> 1
    [] OTHER -> 0

\* role_hierarchy.get(role, 0)
role_hierarchy(role) ==
  CASE role = "superadmin" -> 3
    [] role = "admin" -> 2
    [] role = "user" -> 1
    [] OTHER -> 0

\* RoleAuthMiddleware.process_view: the status of the JsonResponse, Proceed
\* for None
process_view(u, user_role, required_role) ==
  IF required_role = "" THEN Proceed
  ELSE IF ~is_authenticated(u) THEN 401
  ELSE IF role_hierarchy(user_role) < role_hierarchy(required_role) THEN 403
  ELSE Proceed

process_view_body(u, user_role, required_role) ==
  IF process_view(u, user_role, required_role) = Proceed THEN {} ELSE {"error", "detail"}

\* RoleAuthMiddleware.process_request from its first line to return None.
\* integrity_error is the insert refused by the OneToOne constraint because
\* a concurrent request of the same principal inserted the row first (the
\* interleaving of SpecHeal): the row is there afterwards, the except branch
\* has set the facts.
RoleAuthMiddleware_process_request ==
  /\ Idle
  /\ \E u \in Principals, integrity_error \in BOOLEAN :
       /\ integrity_error => (is_authenticated(u) /\ ~HasProfile(u))
       /\ IF ~is_authenticated(u)
          THEN /\ last' = [Checked("process_request", u) EXCEPT
                             !.status = Proceed, !.facts = NoRoleFacts]
               /\ UNCHANGED profiles
          ELSE IF HasProfile(u)
          THEN /\ last' = [Checked("process_request", u) EXCEPT
                             !.status = Proceed, !.granted = TRUE,
                             !.facts = ProfileFacts(ProfileOf(u))]
               /\ UNCHANGED profiles
          ELSE /\ profiles' = InsertProfile(u, "user")
               /\ last' = [Checked("process_request", u) EXCEPT
                             !.status = Proceed,
                             !.facts = IF integrity_error THEN NoRoleFacts
                                       ELSE CreatedProfileFacts]
  /\ UNCHANGED << users, active, permissions, rolePermissions, userPermissions, records,
                  auditLog, organizations, reqs >>

RoleAuthMiddleware_process_view ==
  /\ last.op = "process_request"
  /\ \E required_role \in RequiredRoles :
       last' = [last EXCEPT
                  !.op = "process_view", !.name = required_role,
                  !.status = process_view(last.user, last.facts.user_role, required_role),
                  !.body = process_view_body(last.user, last.facts.user_role,
                                             required_role)]
  /\ UNCHANGED << db, reqs >>

NextRole ==
  \/ RoleAuthMiddleware_process_request
  \/ RoleAuthMiddleware_process_view

SpecRole == InitGuard /\ [][NextRole]_vars

\* the weight the specification gives a role
Weight(role) ==
  IF role = "superadmin" THEN 3 ELSE IF role = "admin" THEN 2
  ELSE IF role = "user" THEN 1 ELSE 0

\* C23: on a view that declares required_role r an unauthenticated request
\* is answered 401 and an authenticated one 403 exactly when the weight of
\* its attached role is below the weight of r (weights 3, 2, 1 for
\* superadmin, admin, user, 0 for every other role, for an unknown r and for
\* absent role facts); a view without required_role is never rejected.
C23_RoleThreshold ==
  last.op = "process_view" =>
     /\ last.name = "" => last.status = Proceed
     /\ (last.name # "" /\ ~is_authenticated(last.user)) => last.status = 401
     /\ (last.name # "" /\ is_authenticated(last.user)) =>
           /\ last.status \in {403, Proceed}
           /\ last.status = 403 <=> Weight(last.facts.user_role) < Weight(last.name)

\* a manager refused on a view that requires 'user': manager weighs 0
C23_Witness ==
  /\ last.op = "process_view"
  /\ is_authenticated(last.user)
  /\ last.facts.user_role = "manager"
  /\ last.name = "user"
  /\ last.status = 403

\* C24: role attachment never rejects; when it has run the attached facts
\* are: no role and three false flags for an unauthenticated request; the
\* Profile's role, is_superadmin exactly for superadmin and is_admin exactly
\* for admin when a Profile was found; role 'user' with a Profile of role
\* 'user' in the table when none was found and the insert went through; no
\* role and three false flags when the insert failed.
C24_RoleAttachment ==
  \A r \in DOMAIN reqs :
    (reqs[r].kind = "RoleAuthMiddleware" /\ reqs[r].pc = "done") =>
       /\ reqs[r].status = Proceed
       /\ ~is_authenticated(reqs[r].user) => reqs[r].facts = NoRoleFacts
       /\ reqs[r].found =>
             /\ HasProfile(reqs[r].user)
             /\ reqs[r].facts.user_role = ProfileOf(reqs[r].user).role
             /\ reqs[r].facts.is_superadmin <=> (reqs[r].facts.user_role = "superadmin")
             /\ reqs[r].facts.is_admin <=> (reqs[r].facts.user_role = "admin")
       /\ (is_authenticated(reqs[r].user) /\ ~reqs[r].found /\ ~reqs[r].error) =>
             /\ ProfileOf(reqs[r].user) = NewProfile(reqs[r].user, "user", NoOrg)
             /\ reqs[r].facts.user_role = "user"
             /\ ~reqs[r].facts.is_superadmin
             /\ ~reqs[r].facts.is_admin
             /\ ~reqs[r].facts.is_admin_or_above
       /\ reqs[r].error => reqs[r].facts = NoRoleFacts

\* one request attached the facts of a superadmin's Profile, another created
\* the Profile of a principal that had none
C24_Witness ==
  \E r1, r2 \in DOMAIN reqs :
    /\ reqs[r1].kind = "RoleAuthMiddleware" /\ reqs[r1].pc = "done"
    /\ reqs[r1].found
    /\ reqs[r1].facts.is_superadmin /\ ~reqs[r1].facts.is_admin
    /\ reqs[r2].kind = "RoleAuthMiddleware" /\ reqs[r2].pc = "done"
    /\ ~reqs[r2].found /\ ~reqs[r2].error
    /\ reqs[r2].facts.user_role = "user"
    /\ ProfileCount(reqs[r2].user) = 1

(***************************************************************************)
(* The operations that write a Profile's role, started from tables whose   *)
(* roles are all among ROLE_CHOICES.                                       *)
(***************************************************************************)
InitChoiceRoles ==
  /\ users \in SUBSET Users
  /\ active = users
  /\ \E f \in [Users -> {NoProfile} \cup (Roles \X {NoOrg})] :
        /\ \A u \in Users \ users : f[u] = NoProfile
        /\ profiles = ProfileBag(f)
  /\ permissions = Catalog
  /\ rolePermissions = SeededRolePermissions
  /\ userPermissions = {}
  /\ records = [i \in RecordIds |-> NoOrg]
  /\ auditLog = << >>
  /\ organizations = AllOrganizations
  /\ reqs = << >>
  /\ last = NoOp

NextRoleWriters ==
  \/ Next
  \/ UserService_create_user_with_profile

SpecRoleWriters == InitChoiceRoles /\ [][NextRoleWriters]_vars

\* C25: the role of every Profile row is one of superadmin, admin, manager,
\* analyst, user, viewer, volunteer.
C25_RoleClosed ==
  \A p \in BagToSet(profiles) : p.role \in Roles

(***************************************************************************)
(* The audit table under the operations that write or delete rows: it      *)
(* holds no entry or one entry an earlier create_user_with_profile call    *)
(* of any user wrote.                                                      *)
(***************************************************************************)
InitialAuditLogs ==
  {<< >>} \cup {<< AuditEntry(a, "create", "User", n) >> : a \in users, n \in Users}

InitAudit ==
  /\ users \in SUBSET Users
  /\ active = users
  /\ \E f \in [Users -> {NoProfile} \cup (StoredRoles \X {NoOrg})] :
        /\ \A u \in Users \ users : f[u] = NoProfile
        /\ profiles = ProfileBag(f)
  /\ permissions = Catalog
  /\ rolePermissions = SeededRolePermissions
  /\ userPermissions = {}
  /\ records = [i \in RecordIds |-> NoOrg]
  /\ auditLog \in InitialAuditLogs
  /\ organizations = AllOrganizations
  /\ reqs = << >>
  /\ last = NoOp

NextAudit ==
  \/ Next
  \/ UserService_create_user_with_profile
  \/ UserService_assign_user_to_organization

SpecAudit == InitAudit /\ [][NextAudit]_vars

\* C26: no step changes a field of an AuditEntry already in the table or
\* removes one; the table only grows.
C26_AuditAppendOnly ==
  [][/\ Len(auditLog') >= Len(auditLog)
     /\ \A i \in DOMAIN auditLog : auditLog'[i] = auditLog[i]]_vars

(***************************************************************************)
(* OrganizationService calls running concurrently                          *)
(* (api/services/organization_service.py): create_organization reads      *)
(* whether the slug exists, then inserts; update_organization_settings     *)
(* saves the Organization instance it was handed.                          *)
(***************************************************************************)
OrgNames == {"Acme", "ACME", "Beta"}

\* django.utils.text.slugify on the names used here
slugify(name) ==
  CASE name \in {"Acme", "ACME"} -> "acme"
    [] name = "Beta" -> "beta"
    [] OTHER -> ""

\* the name and slug arguments of create_organization; slug "" is None
CreateArguments ==
  { [name |-> "Acme", slug |-> ""], [name |-> "ACME", slug |-> ""],
    [name |-> "Beta", slug |-> ""], [name |-> "Beta", slug |-> "acme"] }

NoInstance == [id |-> NoOrg, slug |-> ""]

\* if not slug: slug = slugify(name)
create_slug(c) == IF c.slug = "" THEN slugify(c.name) ELSE c.slug

SlugTaken_unchecked(slug) == FALSE

\* Organization.objects.filter(slug=slug).exists(), and the unique index of
\* the slug column at insert
SlugTaken(slug) == \E o \in organizations : o.slug = slug

\* the primary key the insert assigns
NextOrgId ==
  IF organizations = {} THEN 1
  ELSE (CHOOSE i \in {o.id : o \in organizations} :
          \A o \in organizations : o.id <= i) + 1

NewCreateCall(actor, c) ==
  [kind |-> "create_organization", user |-> actor, name |-> c.name, slug |-> c.slug,
   organization |-> NoInstance, pc |-> "check", status |-> 0]

NewUpdateCall(actor, organization) ==
  [kind |-> "update_organization_settings", user |-> actor, name |-> "", slug |-> "",
   organization |-> organization, pc |-> "save", status |-> 0]

\* create_organization up to the slug_exists test
create_organization_check(r) ==
  /\ reqs[r].kind = "create_organization"
  /\ reqs[r].pc = "check"
  /\ reqs' = [reqs EXCEPT ![r] =
       IF SlugTaken(create_slug(reqs[r]))
       THEN [@ EXCEPT !.pc = "done", !.status = 400]
       ELSE [@ EXCEPT !.pc = "insert"]]
  /\ UNCHANGED << db, last >>

\* create_organization from Organization.objects.create to the return: the
\* IntegrityError of the unique index is turned into a ServiceException 500;
\* the audit entry is written, or its failure rolls the insert back
create_organization_insert(r) ==
  /\ reqs[r].kind = "create_organization"
  /\ reqs[r].pc = "insert"
  /\ IF SlugTaken(create_slug(reqs[r]))
     THEN /\ reqs' = [reqs EXCEPT ![r] = [@ EXCEPT !.pc = "done", !.status = 500]]
          /\ UNCHANGED << organizations, auditLog >>
     ELSE LET row == [id |-> NextOrgId, slug |-> create_slug(reqs[r])] IN
          /\ reqs' = [reqs EXCEPT ![r] =
                        [@ EXCEPT !.pc = "done", !.status = Proceed, !.organization = row]]
          /\ IF ~is_authenticated(reqs[r].user)
             THEN /\ organizations' = organizations \cup {row}
                  /\ UNCHANGED auditLog
             ELSE \E audit_written \in BOOLEAN :
                    IF atomic_commits(audit_written)
                    THEN /\ organizations' = organizations \cup {row}
                         /\ auditLog' = Append(auditLog,
                               AuditEntry(reqs[r].user, "create", "Organization", row.id))
                    ELSE UNCHANGED << organizations, auditLog >>
  /\ UNCHANGED << users, active, profiles, permissions, rolePermissions, userPermissions,
                  records, last >>

\* update_organization_settings: organization.save() writes every column
\* of the instance, the slug among them, to the row of its primary key
update_organization_settings(r) ==
  /\ reqs[r].kind = "update_organization_settings"
  /\ reqs[r].pc = "save"
  /\ organizations' = {IF o.id = reqs[r].organization.id THEN reqs[r].organization ELSE o :
                         o \in organizations}
  /\ reqs' = [reqs EXCEPT ![r] = [@ EXCEPT !.pc = "done", !.status = Proceed]]
  /\ IF is_authenticated(reqs[r].user)
     THEN log_user_action(AuditEntry(reqs[r].user, "update", "Organization",
                                     reqs[r].organization.id))
     ELSE UNCHANGED auditLog
  /\ UNCHANGED << users, active, profiles, permissions, rolePermissions, userPermissions,
                  records, last >>

ServiceActors == {Anonymous, 1}

InitOrg ==
  /\ users = Users
  /\ active = Users
  /\ profiles = EmptyBag
  /\ permissions = Catalog
  /\ rolePermissions = SeededRolePermissions
  /\ userPermissions = {}
  /\ records = [i \in RecordIds |-> NoOrg]
  /\ auditLog = << >>
  /\ organizations \in SUBSET AllOrganizations
  /\ reqs \in [RequestIds ->
        {NewCreateCall(a, c) : a \in ServiceActors, c \in CreateArguments}
          \cup {NewUpdateCall(a, o) : a \in ServiceActors, o \in organizations}]
  /\ last = NoOp

NextOrg ==
  \E r \in RequestIds :
    \/ create_organization_check(r)
    \/ create_organization_insert(r)
    \/ update_organization_settings(r)

SpecOrg == InitOrg /\ [][NextOrg]_vars

\* C27: no two Organization rows share a slug; a create_organization call
\* that finds or hits an existing slug ends with an error and adds no row;
\* no step changes the slug of an existing row or removes the row.
C27_SlugUniqueImmutable ==
  /\ [](\A o1, o2 \in organizations : o1.slug = o2.slug => o1 = o2)
  /\ [][\A r \in RequestIds :
          (reqs[r].kind = "create_organization" /\ reqs[r].pc # "done"
             /\ reqs'[r].pc = "done"
             /\ \E o \in organizations :
                   o.slug = (IF reqs[r].slug = "" THEN slugify(reqs[r].name)
                             ELSE reqs[r].slug))
          => (reqs'[r].status \in {400, 500} /\ organizations' = organizations)]_vars
  /\ [][\A o \in organizations : o \in organizations']_vars

\* two concurrent calls with names of one slug both passed the test; one
\* inserted the row, the other's insert was refused
C27_Witness ==
  \E r1, r2 \in RequestIds :
    /\ r1 # r2
    /\ reqs[r1].kind = "create_organization" /\ reqs[r2].kind = "create_organization"
    /\ reqs[r1].name # reqs[r2].name
    /\ reqs[r1].pc = "done" /\ reqs[r1].status = Proceed
    /\ reqs[r2].pc = "done" /\ reqs[r2].status = 500
    /\ reqs[r1].organization \in organizations
    /\ reqs[r1].organization.slug = create_slug(reqs[r2])

(***************************************************************************)
(* A request that passes the tenant-isolation guard and whose handler      *)
(* lists a tenant owned model with for_request.                            *)
(***************************************************************************)
\* TenantQuerySet.for_request: request.tenant first, request.user otherwise
for_request(u, tenant) ==
  IF tenant # NoOrg THEN for_tenant(tenant)
  ELSE for_user(u)

ForRequest ==
  /\ last.op = "tenant_isolation"
  /\ last.status = Proceed
  /\ last' = [last EXCEPT !.op = "for_request",
                          !.rows = for_request(last.user, last.tenant)]
  /\ UNCHANGED << db, reqs >>

NextRequestScope ==
  \/ TenantIsolationMiddleware_process_request
  \/ ForRequest

SpecRequestScope == InitScope /\ [][NextRequestScope]_vars

\* the organization of the principal's Profile, NoOrg without Profile
OwnOrganization(u) == IF HasProfile(u) THEN ProfileOf(u).organization ELSE NoOrg

\* C28: for a request of an authenticated non-superadmin principal that the
\* tenant-isolation guard let through, for_request returns only records of
\* the principal's own organization, which is the attached tenant when one
\* is attached, and returns nothing when neither a tenant nor an
\* organization is set.
C28_RequestScoped ==
  (/\ last.op = "for_request"
   /\ is_authenticated(last.user)
   /\ ~(HasProfile(last.user) /\ ProfileOf(last.user).role = "superadmin")) =>
     /\ \A i \in last.rows : records[i] = OwnOrganization(last.user)
     /\ (last.tenant = NoOrg /\ OwnOrganization(last.user) = NoOrg) => last.rows = {}

\* the names UserService.assign_role and assign_user_to_organization hand
\* to validate_permission
ServiceCheckedPermissions == {"users.manage_roles", "users.manage_organization"}

\* C29: every permission name the service layer checks is a permission of
\* the seeded catalog; with the seeded tables an admin passes the check of
\* assign_role; a call whose check fails ends with 401 or 403 and leaves
\* the Profile rows and the audit table unchanged.
C29_ServicePermissionsSeeded ==
  /\ [](ServiceCheckedPermissions \subseteq permissions)
  /\ [][(/\ last.op = "none"
         /\ last'.op = "assign_role"
         /\ HasProfile(last'.user)
         /\ ProfileOf(last'.user).role = "admin")
        => last'.status \notin {401, 403}]_vars
  /\ [][(/\ last'.op \in {"assign_role", "assign_user_to_organization"}
         /\ last'.status \in {401, 403})
        => UNCHANGED << profiles, auditLog >>]_vars

(***************************************************************************)
(* Guards next to the two places that create a missing Profile.            *)
(***************************************************************************)
NextGuardHeal ==
  \/ DecoratorGuard
  \/ PermissionClass
  \/ RoleAuthMiddleware_process_request
  \/ Profile_me

SpecGuardHeal == InitGuard /\ [][NextGuardHeal]_vars

=============================================================================
